---------------------------- MODULE Spec2Model ----------------------------
(***************************************************************************)
(* Model of the device-tree visualisation core of Q-Build-Manager:         *)
(*   src/visualization/dts_parser.py      (DtsNode, DtsParser)             *)
(*   src/visualization/diagram_builder.py (DiagramBuilder)                 *)
(* Strings are TLA+ strings, read character by character with Len, SubSeq  *)
(* and \o.  Python's None is modelled by the empty string where the source *)
(* only tests truthiness (DtsNode.label), and a property value is a record *)
(* [b, s]: b = TRUE is the Python boolean True of a valueless property,    *)
(* b = FALSE is the raw value text s.                                      *)
(***************************************************************************)
EXTENDS Integers, Sequences, FiniteSets, TLC

VARIABLES
    fs,         \* the file system: path -> [readable, text]
    req,        \* per parser instance: [base_path, filename] of the request
    nodes,      \* per instance: the DtsNode objects, nodes[p][1] is self.root
    labels,     \* per instance: self.labels, label -> node index
    includes,   \* per instance: self.includes, a set of paths
    routing,    \* per instance: self.routing, a sequence of pairs
    dailinks,   \* per instance: self.dailinks, a sequence of records
    calls,      \* per instance: the activations of _parse_recursive
    status,     \* per instance: where parse() is, or how it ended
    diagrams,   \* per instance: the result of DiagramBuilder.build_all
    graph,      \* per instance: node_map and edges of build_graph_json
    returned,   \* per instance: what earlier calls of build_graph_json returned
    given,      \* what the source text was written from (never read by
                \* the program: the claims compare its results with it)
    tree,       \* the directories under project_root, each a sequence of
                \* names; <<>> is project_root itself
    pm,         \* PathManager.get_dts_base_path: where it is, the walk's
                \* stack, the directories the walk listed, the result
    sanitized       \* a call of sanitize_label on given.text: whether it has
                \* returned, and the string it returned

envVars == <<fs, req, given, tree, pm, sanitized>>

parserVars == <<nodes, labels, includes, routing, dailinks, calls, status>>

builderVars == <<diagrams, graph, returned>>

vars == <<fs, req, given, tree, pm, sanitized, nodes, labels, includes, routing, dailinks,
          calls, status, diagrams, graph, returned>>

-----------------------------------------------------------------------------
(* Strings *)

Ch(s, i) == SubSeq(s, i, i)

Take(s, n) == SubSeq(s, 1, n)

Drop(s, n) == SubSeq(s, n + 1, Len(s))

MinOf(S) == CHOOSE x \in S : \A y \in S : x <= y

MaxOf(S) == CHOOSE x \in S : \A y \in S : x >= y

\* x in s
Contains(s, x) ==
    \E i \in 1..(Len(s) + 1 - Len(x)) : SubSeq(s, i, i + Len(x) - 1) = x

\* s.find(x) + 1: the first position of x in s, 0 when absent
IndexOf(s, x) ==
    LET at == {i \in 1..(Len(s) + 1 - Len(x)) : SubSeq(s, i, i + Len(x) - 1) = x}
    IN  IF at = {} THEN 0 ELSE MinOf(at)

\* s.find(x, from - 1) + 1: the first position >= from of x in s, 0 when absent
IndexFrom(s, x, from) ==
    LET at == {i \in from..(Len(s) + 1 - Len(x)) : SubSeq(s, i, i + Len(x) - 1) = x}
    IN  IF at = {} THEN 0 ELSE MinOf(at)

LastIndexOf(s, x) ==
    LET at == {i \in 1..(Len(s) + 1 - Len(x)) : SubSeq(s, i, i + Len(x) - 1) = x}
    IN  IF at = {} THEN 0 ELSE MaxOf(at)

StartsWith(s, x) == Len(x) <= Len(s) /\ Take(s, Len(x)) = x

EndsWith(s, x) == Len(x) <= Len(s) /\ Drop(s, Len(s) - Len(x)) = x

\* the characters str.strip() and the regex class \s remove
Whitespace == {" ", "\t", "\n", "\r", "\f"}

\* s.strip(chars)
StripChars(s, chars) ==
    LET keep == {i \in 1..Len(s) : Ch(s, i) \notin chars}
    IN  IF keep = {} THEN "" ELSE SubSeq(s, MinOf(keep), MaxOf(keep))

\* s.strip()
Strip(s) == StripChars(s, Whitespace)

\* the string F(lo) F(lo+1) ... F(hi), built by halves
RECURSIVE BuildStr(_, _, _)
BuildStr(F(_), lo, hi) ==
    IF lo > hi THEN ""
    ELSE IF lo = hi THEN F(lo)
    ELSE BuildStr(F, lo, (lo + hi) \div 2) \o BuildStr(F, (lo + hi) \div 2 + 1, hi)

\* s.replace(c, d) for a single character c
ReplaceChar(s, c, d) ==
    BuildStr(LAMBDA i : IF Ch(s, i) = c THEN d ELSE Ch(s, i), 1, Len(s))

\* s.replace(c, '')
RemoveChar(s, c) == ReplaceChar(s, c, "")

\* s.split(c)[0]
SplitFirst(s, c) == IF Contains(s, c) THEN Take(s, IndexOf(s, c) - 1) ELSE s

CharsOf(s) == {Ch(s, i) : i \in 1..Len(s)}

LowerCase == "abcdefghijklmnopqrstuvwxyz"

UpperCase == "ABCDEFGHIJKLMNOPQRSTUVWXYZ"

Digits == "0123456789"

\* f'"{s}"'
Quoted(s) == "\"" \o s \o "\""

\* sep.join(seq)
JoinWith(seq, sep) ==
    BuildStr(LAMBDA i : IF i = 1 THEN seq[1] ELSE sep \o seq[i], 1, Len(seq))

\* s.lower(), s.upper() and s.title() on ASCII text
ToLower == [c \in CharsOf(UpperCase) |-> Ch(LowerCase, IndexOf(UpperCase, c))]

ToUpper == [c \in CharsOf(LowerCase) |-> Ch(UpperCase, IndexOf(LowerCase, c))]

LowerCh(c) == IF c \in DOMAIN ToLower THEN ToLower[c] ELSE c

UpperCh(c) == IF c \in DOMAIN ToUpper THEN ToUpper[c] ELSE c

Lower(s) == BuildStr(LAMBDA i : LowerCh(Ch(s, i)), 1, Len(s))

Upper(s) == BuildStr(LAMBDA i : UpperCh(Ch(s, i)), 1, Len(s))

IsCased(c) == c \in DOMAIN ToLower \/ c \in DOMAIN ToUpper

\* a letter is lower case after a letter, upper case elsewhere
Title(s) ==
    BuildStr(LAMBDA i : IF i > 1 /\ IsCased(Ch(s, i - 1)) THEN LowerCh(Ch(s, i))
                        ELSE UpperCh(Ch(s, i)), 1, Len(s))

\* str(n) of a natural number
RECURSIVE Dec(_)
Dec(n) ==
    IF n < 10 THEN Ch(Digits, n + 1)
    ELSE Dec(n \div 10) \o Ch(Digits, (n % 10) + 1)

\* int(s) of a string of digits
RECURSIVE ParseInt(_)
ParseInt(s) ==
    IF s = "" THEN 0
    ELSE 10 * ParseInt(Take(s, Len(s) - 1)) + IndexOf(Digits, Ch(s, Len(s))) - 1

\* the regex class [\w_] on ASCII text
WordChars == CharsOf(LowerCase) \cup CharsOf(UpperCase) \cup CharsOf(Digits) \cup {"_"}

\* the length of the longest prefix of s made of characters of (not of) a set
SpanIn(s, set) ==
    LET stops == {i \in 1..Len(s) : Ch(s, i) \notin set}
    IN  IF stops = {} THEN Len(s) ELSE MinOf(stops) - 1

SpanNotIn(s, set) ==
    LET stops == {i \in 1..Len(s) : Ch(s, i) \in set}
    IN  IF stops = {} THEN Len(s) ELSE MinOf(stops) - 1

-----------------------------------------------------------------------------
(* The regular expressions and the tokenizer of DtsParser *)

\* re.findall(r'#include\s+["<]([^">]+)[">]', content)
RECURSIVE FindIncludes(_)
FindIncludes(s) ==
    IF ~Contains(s, "#include") THEN <<>>
    ELSE IF ~StartsWith(s, "#include")
    THEN FindIncludes(Drop(s, IndexOf(s, "#include") - 1))
    ELSE LET r1 == Drop(s, 8)
             ws == SpanIn(r1, Whitespace)
             r2 == Drop(r1, ws)
             r3 == Drop(r2, 1)
             nm == SpanNotIn(r3, {"\"", ">"})
             r4 == Drop(r3, nm)
         IN  IF /\ ws >= 1
                /\ r2 # "" /\ Ch(r2, 1) \in {"\"", "<"}
                /\ nm >= 1
                /\ r4 # "" /\ Ch(r4, 1) \in {"\"", ">"}
             THEN <<Take(r3, nm)>> \o FindIncludes(Drop(r4, 1))
             ELSE FindIncludes(Drop(s, 1))

\* re.sub(r'/\*.*?\*/', '', content, flags=re.DOTALL)
RECURSIVE StripBlockComments(_)
StripBlockComments(s) ==
    LET open == IndexOf(s, "/*")
        close == IF open = 0 THEN 0 ELSE IndexFrom(s, "*/", open + 2)
    IN  IF open = 0 \/ close = 0 THEN s
        ELSE Take(s, open - 1) \o StripBlockComments(Drop(s, close + 1))

\* re.sub(r'//.*', '', content): '.' stops at the end of the line
RECURSIVE StripLineComments(_)
StripLineComments(s) ==
    LET open == IndexOf(s, "//")
        rest == Drop(s, open + 1)
    IN  IF open = 0 THEN s
        ELSE Take(s, open - 1)
             \o StripLineComments(Drop(rest, SpanNotIn(rest, {"\n"})))

Delimiters == {"{", "}", ";"}

\* re.split(r'([\{\};])', content): text, delimiter, text, ..., text
Tokenize(s) ==
    LET at == {i \in 1..Len(s) : Ch(s, i) \in Delimiters}
        nth == [k \in 0..(Cardinality(at) + 1) |->
                   IF k = 0 THEN 0
                   ELSE IF k > Cardinality(at) THEN Len(s) + 1
                   ELSE CHOOSE i \in at : Cardinality({j \in at : j < i}) = k - 1]
    IN  [t \in 1..(2 * Cardinality(at) + 1) |->
            IF t % 2 = 0 THEN Ch(s, nth[t \div 2])
            ELSE SubSeq(s, nth[t \div 2] + 1, nth[t \div 2 + 1] - 1)]

\* re.findall(r'"([^"]+)"', raw)
RECURSIVE QuotedSpans(_)
QuotedSpans(s) ==
    IF ~Contains(s, "\"") THEN <<>>
    ELSE IF Ch(s, 1) # "\"" THEN QuotedSpans(Drop(s, IndexOf(s, "\"") - 1))
    ELSE LET r1 == Drop(s, 1)
             n == SpanNotIn(r1, {"\""})
         IN  IF n >= 1 /\ n < Len(r1)
             THEN <<Take(r1, n)>> \o QuotedSpans(Drop(r1, n + 1))
             ELSE QuotedSpans(r1)

\* re.findall(r'&([\w_]+)', val)
RECURSIVE Phandles(_)
Phandles(s) ==
    IF ~Contains(s, "&") THEN <<>>
    ELSE IF Ch(s, 1) # "&" THEN Phandles(Drop(s, IndexOf(s, "&") - 1))
    ELSE LET r1 == Drop(s, 1)
             n == SpanIn(r1, WordChars)
         IN  IF n >= 1 THEN <<Take(r1, n)>> \o Phandles(Drop(r1, n))
             ELSE Phandles(r1)

\* os.path.join(base, name) on POSIX: an absolute name replaces the base
PathJoin(base, name) ==
    IF StartsWith(name, "/") THEN name
    ELSE IF base = "" \/ EndsWith(base, "/") THEN base \o name
    ELSE base \o "/" \o name

\* the first candidate of _parse_recursive that exists and is a file, "" if none
ResolvePath(base, filename) ==
    LET clean == StripChars(filename, {"<", ">", "\""})
        c1 == PathJoin(base, clean)
        c2 == PathJoin(PathJoin(base, "qcom"), clean)
    IN  IF c1 \in DOMAIN fs THEN c1
        ELSE IF c2 \in DOMAIN fs THEN c2
        ELSE IF clean \in DOMAIN fs THEN clean
        ELSE ""

-----------------------------------------------------------------------------
(* DtsNode and the property map *)

\* DtsNode.__init__
DtsNode(name, label, parent) ==
    [name |-> name, label |-> label, parent |-> parent,
     props |-> <<>>, children |-> <<>>]

StrVal(s) == [b |-> FALSE, s |-> s]

TrueVal == [b |-> TRUE, s |-> ""]

\* key in node.props
HasProp(n, key) == \E i \in 1..Len(n.props) : n.props[i].k = key

\* node.props[key], for a key that is present
PropOf(n, key) == n.props[CHOOSE i \in 1..Len(n.props) : n.props[i].k = key].v

\* node.props.get(key, default)
PropGet(n, key, default) == IF HasProp(n, key) THEN PropOf(n, key) ELSE default

\* props[key] = val on a dict: a present key keeps its place
SetProp(props, key, val) ==
    IF \E i \in 1..Len(props) : props[i].k = key
    THEN [i \in 1..Len(props) |->
            IF props[i].k = key THEN [k |-> key, v |-> val] ELSE props[i]]
    ELSE Append(props, [k |-> key, v |-> val])

EmptyMap == [x \in {} |-> 0]

\* labels[label] = node
MapPut(map, key, val) ==
    [x \in DOMAIN map \cup {key} |-> IF x = key THEN val ELSE map[x]]

Last(seq) == seq[Len(seq)]

Front(seq) == SubSeq(seq, 1, Len(seq) - 1)

-----------------------------------------------------------------------------
(* DtsParser._parse_recursive, one activation per entry of calls[p].       *)
(* An activation is [file, phase, path, incs, toks, stack, buffer]; its     *)
(* phase is "resolve" (lines 33-55), "includes" (58-61) or "tokens" (68-98) *)

Frame(filename) ==
    [file |-> filename, phase |-> "resolve", path |-> "",
     incs |-> <<>>, toks |-> <<>>, stack |-> <<>>, buffer |-> ""]

Top(p) == Last(calls[p])

InPhase(p, phase) ==
    status[p] = "parsing" /\ calls[p] # <<>> /\ Top(p).phase = phase

SetTop(p, frame) == [calls EXCEPT ![p] = Append(Front(calls[p]), frame)]

\* parse(), line 26: the call of _parse_recursive(filename, self.root)
Parse(p) ==
    /\ status[p] = "new"
    /\ status' = [status EXCEPT ![p] = "parsing"]
    /\ calls' = [calls EXCEPT ![p] = <<Frame(req[p].filename)>>]
    /\ UNCHANGED <<envVars, builderVars, nodes, labels, includes, routing, dailinks>>

\* line 48 without its test of the include set
AdmitsAnyFile(p, path) == path # ""

\* line 48 with an include set that all parser instances share
AdmitsUnlessShared(p, path) == path # "" /\ \A q \in DOMAIN includes : path \notin includes[q]

\* whether line 48 lets the file in
Admits(p, path) == path # "" /\ path \notin includes[p]

\* lines 33-58: resolve the name, return early or record the file and read it
ResolveFile(p) ==
    /\ InPhase(p, "resolve")
    /\ LET path == ResolvePath(req[p].base_path, Top(p).file)
       IN  IF ~Admits(p, path)
           THEN /\ calls' = [calls EXCEPT ![p] = Front(calls[p])]
                /\ UNCHANGED includes
           ELSE /\ includes' = [includes EXCEPT ![p] = @ \cup {path}]
                /\ IF ~fs[path].readable
                   THEN calls' = [calls EXCEPT ![p] = Front(calls[p])]
                   ELSE calls' = SetTop(p, [Top(p) EXCEPT
                                   !.phase = "includes", !.path = path,
                                   !.incs = FindIncludes(fs[path].text)])
    /\ UNCHANGED <<envVars, builderVars, nodes, labels, routing, dailinks, status>>

\* lines 59-61: the recursive call for the next include
FollowInclude(p) ==
    /\ InPhase(p, "includes")
    /\ Top(p).incs # <<>>
    /\ calls' = [calls EXCEPT ![p] =
                    Append(Front(calls[p]), [Top(p) EXCEPT !.incs = Tail(@)])
                    \o <<Frame(Head(Top(p).incs))>>]
    /\ UNCHANGED <<envVars, builderVars, nodes, labels, includes, routing, dailinks, status>>

\* lines 64-70: strip the comments, split, start at current_root
StartTokens(p) ==
    /\ InPhase(p, "includes")
    /\ Top(p).incs = <<>>
    /\ calls' = SetTop(p, [Top(p) EXCEPT
                    !.phase = "tokens",
                    !.toks = Tokenize(StripLineComments(
                                 StripBlockComments(fs[Top(p).path].text))),
                    !.stack = <<1>>,
                    !.buffer = ""])
    /\ UNCHANGED <<envVars, builderVars, nodes, labels, includes, routing, dailinks, status>>

AtToken(p, tok) ==
    InPhase(p, "tokens") /\ Top(p).toks # <<>> /\ Head(Top(p).toks) = tok

\* lines 74-79: the header's label ("" for None) and name
HeaderLabel(header) ==
    IF Contains(header, ":") THEN Strip(Take(header, IndexOf(header, ":") - 1))
    ELSE ""

HeaderName(header) ==
    IF Contains(header, ":") THEN Strip(Drop(header, LastIndexOf(header, ":")))
    ELSE header

\* line 81: the header names the root
IsRootName(name) == name = "/"

\* line 82: the header is a reference
IsRefName(name) == StartsWith(name, "&")

\* line 83 with the root as the default instead of the top of the stack
RefTargetRoot(p, name, top) ==
    IF Drop(name, 1) \in DOMAIN labels[p] THEN labels[p][Drop(name, 1)] ELSE 1

\* line 83: self.labels.get(name[1:], stack[-1])
RefTarget(p, name, top) ==
    IF Drop(name, 1) \in DOMAIN labels[p] THEN labels[p][Drop(name, 1)] ELSE top

\* '{' with the append of line 85 done for a re-entered node too
OpenBraceAppendsAlways(p) ==
    /\ AtToken(p, "{")
    /\ LET f == Top(p)
           header == Strip(f.buffer)
           label == HeaderLabel(header)
           name == HeaderName(header)
           top == Last(f.stack)
           fresh == ~IsRootName(name) /\ ~IsRefName(name)
           node == IF IsRootName(name) THEN 1
                   ELSE IF IsRefName(name) THEN RefTarget(p, name, top)
                   ELSE Len(nodes[p]) + 1
       IN  /\ nodes' = [nodes EXCEPT ![p] =
                          IF fresh
                          THEN Append([@ EXCEPT ![top].children = Append(@, node)],
                                      DtsNode(name, label, top))
                          ELSE [@ EXCEPT ![top].children = Append(@, node)]]
           /\ labels' = [labels EXCEPT ![p] =
                          IF label # "" THEN MapPut(@, label, node) ELSE @]
           /\ calls' = SetTop(p, [f EXCEPT !.toks = Tail(@),
                                           !.stack = Append(@, node),
                                           !.buffer = ""])
    /\ UNCHANGED <<envVars, builderVars, includes, routing, dailinks, status>>

\* lines 73-88: '{'
OpenBrace(p) ==
    /\ AtToken(p, "{")
    /\ LET f == Top(p)
           header == Strip(f.buffer)
           label == HeaderLabel(header)
           name == HeaderName(header)
           top == Last(f.stack)
           fresh == ~IsRootName(name) /\ ~IsRefName(name)
           node == IF IsRootName(name) THEN 1
                   ELSE IF IsRefName(name) THEN RefTarget(p, name, top)
                   ELSE Len(nodes[p]) + 1
       IN  /\ nodes' = [nodes EXCEPT ![p] =
                          IF fresh
                          THEN Append([@ EXCEPT ![top].children = Append(@, node)],
                                      DtsNode(name, label, top))
                          ELSE @]
           /\ labels' = [labels EXCEPT ![p] =
                          IF label # "" THEN MapPut(@, label, node) ELSE @]
           /\ calls' = SetTop(p, [f EXCEPT !.toks = Tail(@),
                                           !.stack = Append(@, node),
                                           !.buffer = ""])
    /\ UNCHANGED <<envVars, builderVars, includes, routing, dailinks, status>>

\* '}' without the test of line 90
CloseBraceAlwaysPops(p) ==
    /\ AtToken(p, "}")
    /\ calls' = SetTop(p, [Top(p) EXCEPT
                    !.toks = Tail(@),
                    !.stack = Front(@),
                    !.buffer = ""])
    /\ UNCHANGED <<envVars, builderVars, nodes, labels, includes, routing, dailinks, status>>

\* lines 89-91: '}'
CloseBrace(p) ==
    /\ AtToken(p, "}")
    /\ calls' = SetTop(p, [Top(p) EXCEPT
                    !.toks = Tail(@),
                    !.stack = IF Len(@) > 1 THEN Front(@) ELSE @,
                    !.buffer = ""])
    /\ UNCHANGED <<envVars, builderVars, nodes, labels, includes, routing, dailinks, status>>

\* line 95: k, v = stmt.split('=', 1); the key and the value stored
StmtKey(stmt) ==
    IF Contains(stmt, "=") THEN Strip(Take(stmt, IndexOf(stmt, "=") - 1)) ELSE stmt

\* line 95 with the value taken after the last `=`
StmtValAfterLast(stmt) ==
    IF Contains(stmt, "=") THEN StrVal(Strip(Drop(stmt, LastIndexOf(stmt, "="))))
    ELSE TrueVal

StmtVal(stmt) ==
    IF Contains(stmt, "=") THEN StrVal(Strip(Drop(stmt, IndexOf(stmt, "="))))
    ELSE TrueVal

\* lines 92-97: ';'
Semicolon(p) ==
    /\ AtToken(p, ";")
    /\ LET f == Top(p)
           stmt == Strip(f.buffer)
           top == Last(f.stack)
       IN  /\ nodes' = [nodes EXCEPT ![p] =
                          IF stmt # "" /\ f.stack # <<>>
                          THEN [@ EXCEPT ![top].props =
                                   SetProp(@, StmtKey(stmt), StmtVal(stmt))]
                          ELSE @]
           /\ calls' = SetTop(p, [f EXCEPT !.toks = Tail(@), !.buffer = ""])
    /\ UNCHANGED <<envVars, builderVars, labels, includes, routing, dailinks, status>>

\* line 98: any other token is added to the buffer
Text(p) ==
    /\ InPhase(p, "tokens")
    /\ Top(p).toks # <<>>
    /\ Head(Top(p).toks) \notin Delimiters
    /\ calls' = SetTop(p, [Top(p) EXCEPT !.toks = Tail(@),
                                         !.buffer = @ \o Head(Top(p).toks)])
    /\ UNCHANGED <<envVars, builderVars, nodes, labels, includes, routing, dailinks, status>>

\* the end of the token loop: _parse_recursive returns
Return(p) ==
    /\ InPhase(p, "tokens")
    /\ Top(p).toks = <<>>
    /\ calls' = [calls EXCEPT ![p] = Front(calls[p])]
    /\ UNCHANGED <<envVars, builderVars, nodes, labels, includes, routing, dailinks, status>>

-----------------------------------------------------------------------------
(* Post-processing.  A search or extraction result is [kind, ...] with     *)
(* kind "raise" where the Python code raises (a str operation on True).    *)

\* lines 132-133: the compatible value names a sound card
IsCardCompatible(val) == Contains(val, "sndcard") \/ Contains(val, "audio-card")

\* line 141: the name match
IsCardName(name) == Contains(name, "sound") /\ ~Contains(name, "pinctrl")

\* get_sound_card_node, lines 126-146: the loop over the queue
RECURSIVE SoundCardSearch(_, _, _)
SoundCardSearch(ns, queue, candidates) ==
    IF queue = <<>>
    THEN IF candidates # <<>> THEN [kind |-> "node", n |-> Head(candidates)]
         ELSE [kind |-> "none", n |-> 0]
    ELSE LET i == Head(queue)
             n == ns[i]
         IN  IF HasProp(n, "compatible") /\ PropOf(n, "compatible").b
             THEN [kind |-> "raise", n |-> i]
             ELSE IF HasProp(n, "compatible")
                     /\ IsCardCompatible(PropOf(n, "compatible").s)
             THEN [kind |-> "node", n |-> i]
             ELSE IF HasProp(n, "audio-routing")
             THEN [kind |-> "node", n |-> i]
             ELSE SoundCardSearch(ns, Tail(queue) \o n.children,
                      IF IsCardName(n.name) THEN Append(candidates, i)
                      ELSE candidates)

GetSoundCardNode(ns) == SoundCardSearch(ns, <<1>>, <<>>)

\* line 105 with a step of one: every string paired with its successor
RoutingPairsOverlapping(parts) ==
    [j \in 1..(Len(parts) - 1) |-> <<parts[j], parts[j + 1]>>]

\* line 105: for i in range(0, len(parts)-1, 2): (parts[i], parts[i+1])
RoutingPairs(parts) ==
    LET starts == {i \in 0..(Len(parts) - 2) : i % 2 = 0}
    IN  [j \in 1..Cardinality(starts) |-> <<parts[2 * j - 1], parts[2 * j]>>]

\* _post_process_routing, lines 100-105
ExtractRouting(ns) ==
    LET snd == GetSoundCardNode(ns)
    IN  IF snd.kind = "raise" THEN [kind |-> "raise", v |-> <<>>]
        ELSE IF snd.kind = "node" /\ HasProp(ns[snd.n], "audio-routing")
        THEN LET raw == PropOf(ns[snd.n], "audio-routing")
             IN  IF raw.b THEN [kind |-> "raise", v |-> <<>>]
                 ELSE [kind |-> "ok", v |-> RoutingPairs(QuotedSpans(raw.s))]
        ELSE [kind |-> "ok", v |-> <<>>]

\* line 120: the first child of that name, 0 if none
SubNode(ns, n, subnode_name) ==
    LET at == {j \in 1..Len(n.children) : ns[n.children[j]].name = subnode_name}
    IN  IF at = {} THEN 0 ELSE n.children[MinOf(at)]

\* _extract_phandle, lines 119-123
ExtractPhandle(ns, n, subnode_name) ==
    LET sub == SubNode(ns, n, subnode_name)
        val == PropGet(ns[sub], "sound-dai", StrVal(""))
    IN  IF sub = 0 THEN [kind |-> "ok", v |-> <<>>]
        ELSE IF val.b THEN [kind |-> "raise", v |-> <<>>]
        ELSE [kind |-> "ok", v |-> Phandles(val.s)]

\* line 111 without its test of the link-name property
IsDaiLinkByName(n) == Contains(n.name, "dai-link")

\* line 111: the child is a DAI link
IsDaiLink(n) == Contains(n.name, "dai-link") \/ HasProp(n, "link-name")

\* lines 112-117: the record of one child
DaiLinkOf(ns, n) ==
    LET nm == PropGet(n, "link-name", StrVal(n.name))
        cpu == ExtractPhandle(ns, n, "cpu")
        codec == ExtractPhandle(ns, n, "codec")
        platform == ExtractPhandle(ns, n, "platform")
    IN  IF nm.b \/ "raise" \in {cpu.kind, codec.kind, platform.kind}
        THEN [kind |-> "raise"]
        ELSE [kind |-> "ok",
              v |-> [name |-> RemoveChar(nm.s, "\""), cpu |-> cpu.v,
                     codec |-> codec.v, platform |-> platform.v]]

\* lines 110-117: the loop over snd.children; the links appended before a
\* raise stay in self.dailinks
RECURSIVE DaiLinksOf(_, _, _)
DaiLinksOf(ns, kids, acc) ==
    IF kids = <<>> THEN [kind |-> "ok", v |-> acc]
    ELSE IF ~IsDaiLink(ns[Head(kids)]) THEN DaiLinksOf(ns, Tail(kids), acc)
    ELSE LET link == DaiLinkOf(ns, ns[Head(kids)])
         IN  IF link.kind = "raise" THEN [kind |-> "raise", v |-> acc]
             ELSE DaiLinksOf(ns, Tail(kids), Append(acc, link.v))

\* _post_process_dailinks, lines 107-117
ExtractDaiLinks(ns) ==
    LET snd == GetSoundCardNode(ns)
    IN  IF snd.kind = "raise" THEN [kind |-> "raise", v |-> <<>>]
        ELSE IF snd.kind = "node" THEN DaiLinksOf(ns, ns[snd.n].children, <<>>)
        ELSE [kind |-> "ok", v |-> <<>>]

\* parse(), line 27
PostProcessRouting(p) ==
    /\ status[p] = "parsing"
    /\ calls[p] = <<>>
    /\ LET r == ExtractRouting(nodes[p])
       IN  /\ routing' = [routing EXCEPT ![p] = @ \o r.v]
           /\ status' = [status EXCEPT ![p] =
                            IF r.kind = "raise" THEN "raised" ELSE "routed"]
    /\ UNCHANGED <<envVars, builderVars, nodes, labels, includes, dailinks, calls>>

\* parse(), lines 28-29
PostProcessDailinks(p) ==
    /\ status[p] = "routed"
    /\ LET r == ExtractDaiLinks(nodes[p])
       IN  /\ dailinks' = [dailinks EXCEPT ![p] = @ \o r.v]
           /\ status' = [status EXCEPT ![p] =
                            IF r.kind = "raise" THEN "raised" ELSE "parsed"]
    /\ UNCHANGED <<envVars, builderVars, nodes, labels, includes, routing, calls>>

\* id(node): an integer of the node's own
ObjId(i) == Dec(i)

\* an id that numbers the unlabelled nodes anew at every build
HwIdPerBuild(ns, i, prefix) ==
    IF ns[i].label # "" THEN ns[i].label
    ELSE prefix \o Dec(i + Len(returned[1]))

\* lines 154 and 172: "id": n.label or f"<prefix>{id(n)}"
HwId(ns, i, prefix) ==
    IF ns[i].label # "" THEN ns[i].label ELSE prefix \o ObjId(i)

\* lines 166-168: the type told by the compatible string or the name
HwType(comp, name) ==
    IF Contains(comp, "qcom,wcd") \/ Contains(name, "wcd9") THEN "codec"
    ELSE IF Contains(comp, "qcom,wsa") \/ Contains(name, "wsa8") THEN "amp"
    ELSE IF Contains(comp, "qcom,lpass") \/ Contains(name, "lpass") THEN "soc"
    ELSE "component"

\* lines 171-172: the entry of a node that has a type
HwEntry(ns, i, t) ==
    [id |-> HwId(ns, i, "n_"),
     label |-> Upper(SplitFirst(IF ns[i].label # "" THEN ns[i].label
                                ELSE ns[i].name, "@")),
     type |-> t, full_name |-> ns[i].name]

\* get_hardware_nodes, lines 159-174: the loop over the queue
RECURSIVE HwScan(_, _, _)
HwScan(ns, queue, hw) ==
    IF queue = <<>> THEN [kind |-> "ok", v |-> hw]
    ELSE LET i == Head(queue)
             comp == PropGet(ns[i], "compatible", StrVal(""))
             t == HwType(comp.s, ns[i].name)
         IN  IF comp.b THEN [kind |-> "raise", v |-> <<>>]
             ELSE HwScan(ns, Tail(queue) \o ns[i].children,
                      IF t # "component" THEN Append(hw, HwEntry(ns, i, t))
                      ELSE hw)

\* get_hardware_nodes, lines 148-174
GetHardwareNodes(ns) ==
    LET snd == GetSoundCardNode(ns)
    IN  IF snd.kind = "raise" THEN [kind |-> "raise", v |-> <<>>]
        ELSE HwScan(ns, <<1>>,
                 IF snd.kind = "node"
                 THEN <<[id |-> HwId(ns, snd.n, "snd_"), label |-> "Sound Card",
                         type |-> "sndcard", full_name |-> ns[snd.n].name]>>
                 ELSE <<>>)

RECURSIVE Flatten(_)
Flatten(seqs) == IF seqs = <<>> THEN <<>> ELSE Head(seqs) \o Flatten(Tail(seqs))

\* lines 182-185: the connections of one link
LinkConnections(snd_id, link) ==
    [i \in 1..Len(link.cpu) |-> <<snd_id, link.cpu[i], "CPU: " \o link.name>>]
    \o [i \in 1..Len(link.codec) |->
            <<snd_id, link.codec[i], "Codec: " \o link.name>>]
    \o Flatten([i \in 1..Len(link.cpu) |->
            [j \in 1..Len(link.codec) |-> <<link.cpu[i], link.codec[j], "DAI">>]])

\* get_hardware_connections, lines 176-186
GetHardwareConnections(ns, links) ==
    LET snd == GetSoundCardNode(ns)
    IN  IF snd.kind = "raise" THEN [kind |-> "raise", v |-> <<>>]
        ELSE IF snd.kind = "none" THEN [kind |-> "ok", v |-> <<>>]
        ELSE [kind |-> "ok",
              v |-> Flatten([k \in 1..Len(links) |->
                        LinkConnections(HwId(ns, snd.n, "snd_"), links[k])])]

-----------------------------------------------------------------------------
(* DiagramBuilder: the Mermaid texts of build_all *)

\* hashlib.md5(raw_id.encode()).hexdigest()[:8]: the digest of a string is
\* the string itself behind a mark, so that two strings have one digest only
\* when they are equal
Md5Hex8(raw_id) == "#" \o raw_id

\* _get_safe_id, lines 9-12
GetSafeId(raw_id) ==
    IF raw_id = "" THEN "node_unknown" ELSE "node_" \o Md5Hex8(raw_id)

\* _is_high_level_node, lines 14-21
IsHighLevelNode(n) ==
    /\ ~Contains(Lower(n.label), "#include")
    /\ ~Contains(Lower(n.label), "dt-bindings")
    /\ ~Contains(Lower(n.id), "pinctrl")
    /\ ~Contains(Lower(n.id), "gpio")

\* sanitize_label without the cut of line 27
SanitizeLabelKeepsAngle(text) ==
    IF text = "" THEN "Block"
    ELSE LET clean == Title(ReplaceChar(SplitFirst(text, "\""), "_", " "))
         IN  IF Len(clean) > 25 THEN Take(clean, 22) \o "..." ELSE clean

\* sanitize_label, lines 23-31
SanitizeLabel(text) ==
    IF text = "" THEN "Block"
    ELSE LET clean == Title(ReplaceChar(
                          SplitFirst(SplitFirst(text, "\""), "<"), "_", " "))
         IN  IF Len(clean) > 25 THEN Take(clean, 22) \o "..." ELSE clean

\* sanitize_label has not been called on given.text
NoCall == sanitized = [st |-> "new"]

\* a call of sanitize_label(given.text), lines 23-31
Sanitize ==
    /\ sanitized.st = "new"
    /\ sanitized' = [st |-> "done", text |-> SanitizeLabel(given.text)]
    /\ UNCHANGED <<fs, req, given, tree, pm, parserVars, builderVars>>

\* lines 56-64: the two lines of a hardware node
HardwareNodeLines(n) ==
    LET safe_id == GetSafeId(n.id)
        round == n.type \in {"sndcard", "codec"}
        css == IF n.type = "sndcard" THEN "snd"
               ELSE IF n.type \in {"soc", "codec"} THEN n.type ELSE "gen"
    IN  <<safe_id \o (IF round THEN "([" ELSE "[") \o Quoted(SanitizeLabel(n.label))
              \o (IF round THEN "])" ELSE "]") \o ":::" \o css,
          "click " \o safe_id \o " callNodeCallback " \o Quoted(n.id)>>

\* lines 66-70 without the test of valid_ids
ConnectionLinesOfAny(conn, valid_ids) ==
    LET l == SanitizeLabel(conn[3])
    IN  IF GetSafeId(conn[1]) # GetSafeId(conn[2])
        THEN <<GetSafeId(conn[1]) \o " -- "
                 \o Quoted(IF l = "" THEN "link" ELSE l)
                 \o " --> " \o GetSafeId(conn[2])>>
        ELSE <<>>

\* lines 66-70: the line of a connection, if it has one
ConnectionLines(conn, valid_ids) ==
    LET l == SanitizeLabel(conn[3])
    IN  IF conn[1] \in valid_ids /\ conn[2] \in valid_ids
           /\ GetSafeId(conn[1]) # GetSafeId(conn[2])
        THEN <<GetSafeId(conn[1]) \o " -- "
                 \o Quoted(IF l = "" THEN "link" ELSE l)
                 \o " --> " \o GetSafeId(conn[2])>>
        ELSE <<>>

\* build_hardware_diagram, lines 41-71
BuildHardwareDiagram(ns, links) ==
    LET hw == GetHardwareNodes(ns)
        conns == GetHardwareConnections(ns, links)
        shown == SelectSeq(hw.v, IsHighLevelNode)
        valid_ids == {shown[i].id : i \in 1..Len(shown)}
    IN  IF hw.kind = "raise" \/ conns.kind = "raise"
        THEN [kind |-> "raise", v |-> ""]
        ELSE [kind |-> "ok",
              v |-> JoinWith(
                <<"graph TD",
                  "classDef snd fill:#ff9900,stroke:#333,stroke-width:2px,color:white,rx:5,ry:5",
                  "classDef soc fill:#2962ff,stroke:#333,stroke-width:0px,color:white,rx:2,ry:2",
                  "classDef codec fill:#00c853,stroke:#333,stroke-width:0px,color:white,rx:5,ry:5",
                  "classDef gen fill:#607d8b,stroke:#333,color:white">>
                \o Flatten([i \in 1..Len(shown) |-> HardwareNodeLines(shown[i])])
                \o Flatten([i \in 1..Len(conns.v) |->
                               ConnectionLines(conns.v[i], valid_ids)]),
                "\n")]

\* lines 76-86: the lines of one link
DaiLinkLines(link) ==
    [i \in 1..Len(link.cpu) |->
        GetSafeId(link.cpu[i]) \o "[" \o Quoted(link.cpu[i]) \o "]:::cpu"]
    \o [i \in 1..Len(link.codec) |->
        GetSafeId(link.codec[i]) \o "[" \o Quoted(link.codec[i]) \o "]:::codec"]
    \o Flatten([i \in 1..Len(link.cpu) |-> [j \in 1..Len(link.codec) |->
        GetSafeId(link.cpu[i]) \o " -- " \o Quoted(SanitizeLabel(link.name))
            \o " --> " \o GetSafeId(link.codec[j])]])

\* build_dailinks_diagram, lines 73-87
BuildDailinksDiagram(links) ==
    JoinWith(<<"graph LR", "classDef cpu fill:#2962ff,color:white",
               "classDef codec fill:#00c853,color:white">>
             \o Flatten([k \in 1..Len(links) |-> DaiLinkLines(links[k])]),
             "\n")

\* build_routing_diagram, lines 89-94
BuildRoutingDiagram(pairs) ==
    JoinWith(<<"graph LR">>
             \o [k \in 1..Len(pairs) |->
                    GetSafeId(pairs[k][1]) \o " --> " \o GetSafeId(pairs[k][2])],
             "\n")

\* build_all, lines 33-38, on the model parse returned
BuildAll(p) ==
    /\ status[p] = "parsed"
    /\ diagrams[p].st = "new"
    /\ \E hardware \in {BuildHardwareDiagram(nodes[p], dailinks[p])} :
           diagrams' = [diagrams EXCEPT ![p] =
               IF hardware.kind = "raise" THEN [st |-> "raised"]
               ELSE [st |-> "built", hardware |-> hardware.v,
                     dailinks |-> BuildDailinksDiagram(dailinks[p]),
                     routing |-> BuildRoutingDiagram(routing[p])]]
    /\ UNCHANGED <<envVars, parserVars, graph, returned>>

-----------------------------------------------------------------------------
(* DiagramBuilder.build_graph_json.  node_map is the sequence of its values *)
(* in insertion order; a node without a 'parent' key has parent "".         *)

\* the statements Op(acc, seq[1]), Op(acc, seq[2]), ... run in order on acc
RECURSIVE FoldSeq(_, _, _)
FoldSeq(Op(_, _), acc, seq) ==
    IF seq = <<>> THEN acc
    ELSE CHOOSE r \in {FoldSeq(Op, a, Tail(seq)) : a \in {Op(acc, Head(seq))}} : TRUE

GraphNode(id, label, type, full_name, parent) ==
    [id |-> id, label |-> label, type |-> type, full_name |-> full_name,
     parent |-> parent]

\* lines 180-187
Groups ==
    <<GraphNode("grp_host", "Host / APSS", "group", "Host / APSS", ""),
      GraphNode("grp_lpass", "LPASS", "group", "LPASS", ""),
      GraphNode("grp_buses", "Audio Buses", "group", "Audio Buses", ""),
      GraphNode("grp_peripherals", "Peripherals", "group", "Peripherals", ""),
      GraphNode("grp_speakers", "Speakers", "group", "Speakers", "")>>

\* node_map.get(sid): the position of the node, 0 when absent
NodeIndex(g, sid) ==
    LET at == {i \in 1..Len(g.nodes) : g.nodes[i].id = sid}
    IN  IF at = {} THEN 0 ELSE CHOOSE i \in at : TRUE

\* add_node, lines 100-115; a caller that passes no label passes raw_id, one
\* that passes no full_name or parent passes ""
AddNode(g, raw_id, label, ntype, full_name, parent) ==
    IF raw_id = "" THEN g
    ELSE LET sid == GetSafeId(raw_id)
             g1 == IF NodeIndex(g, sid) # 0 THEN g
                   ELSE [g EXCEPT !.nodes = Append(@, GraphNode(sid,
                            RemoveChar(SanitizeLabel(label), "\""),
                            IF ntype = "" THEN "component" ELSE ntype,
                            IF full_name = "" THEN raw_id ELSE full_name, ""))]
         IN  IF parent = "" THEN g1
             ELSE [g1 EXCEPT !.nodes[NodeIndex(g1, sid)].parent = parent]

ContainsAny(s, xs) == \E x \in xs : Contains(s, x)

\* classify_parent_for, lines 117-127, of a node that is not a group
ClassifyParentFor(n) ==
    LET lbl == Lower(n.label)
        fn == Lower(n.full_name)
        periph == {"wcd", "wsa", "codec", "amp", "max98357"}
    IN  IF ContainsAny(lbl, {"spkr", "speaker"}) \/ ContainsAny(fn, {"spkr", "speaker"})
        THEN "grp_speakers"
        ELSE IF n.type \in {"codec", "amp"} \/ ContainsAny(lbl, periph)
                \/ ContainsAny(fn, periph)
        THEN "grp_peripherals"
        ELSE IF n.type = "bus" \/ ContainsAny(lbl, {"soundwire", "pcm", "tdm", "dmic"})
        THEN "grp_buses"
        ELSE IF n.type = "sndcard" THEN "grp_host"
        ELSE "grp_lpass"

\* ensure_parent without the test of lines 132-133
EnsureParentOfAny(g, sid) ==
    LET i == NodeIndex(g, sid)
    IN  IF sid = "" \/ i = 0 THEN g
        ELSE IF g.nodes[i].parent # "" THEN g
        ELSE [g EXCEPT !.nodes[i].parent = ClassifyParentFor(g.nodes[i])]

\* ensure_parent, lines 129-135
EnsureParent(g, sid) ==
    LET i == NodeIndex(g, sid)
    IN  IF sid = "" \/ i = 0 THEN g
        ELSE IF g.nodes[i].type = "group" \/ g.nodes[i].parent # "" THEN g
        ELSE [g EXCEPT !.nodes[i].parent = ClassifyParentFor(g.nodes[i])]

\* add_edge without the calls of lines 138 and 140: the edge alone
AddEdgeBare(g, kind, src_raw, dst_raw, label) ==
    IF src_raw = "" \/ dst_raw = "" THEN g
    ELSE [g EXCEPT !.edges = Append(@,
             [source |-> GetSafeId(src_raw), target |-> GetSafeId(dst_raw),
              kind |-> kind, label |-> RemoveChar(label, "\"")])]

\* add_edge, lines 137-141
AddEdge(g, kind, src_raw, dst_raw, label) ==
    LET g1 == AddNode(g, src_raw, src_raw, "component", "", "")
        g2 == AddNode(g1, dst_raw, dst_raw, "component", "", "")
        s == GetSafeId(src_raw)
        d == GetSafeId(dst_raw)
        g3 == EnsureParent(EnsureParent(g2, s), d)
    IN  IF src_raw = "" \/ dst_raw = "" THEN g2
        ELSE [g3 EXCEPT !.edges = Append(@,
                 [source |-> s, target |-> d, kind |-> kind,
                  label |-> RemoveChar(label, "\"")])]

\* is_macro, lines 143-145
IsMacro(tok) == StartsWith(Lower(tok), "lpass_") /\ Contains(Lower(tok), "macro")

\* macro_name, lines 147-153: <<key, label>>
MacroName(tok) ==
    LET tl == Lower(tok)
    IN  IF Contains(tl, "rxmacro") THEN <<"rxmacro", "Lpaif Rx">>
        ELSE IF Contains(tl, "txmacro") THEN <<"txmacro", "Lpaif Tx">>
        ELSE IF Contains(tl, "wsamacro") THEN <<"wsamacro", "Wsa Macro">>
        ELSE IF Contains(tl, "vamacro") THEN <<"vamacro", "Va Macro">>
        ELSE <<"macro", "Macro">>

\* is_platform, lines 155-156
IsPlatform(tok) == StartsWith(Lower(tok), "q6apm") \/ Lower(tok) = "q6apm"

\* re.search(r'\bswr(\d+)\b', s): the digits of the first match, "" if none
SwrDigits(s) ==
    LET at == {i \in 1..(Len(s) - 2) :
                 /\ SubSeq(s, i, i + 2) = "swr"
                 /\ (i = 1 \/ Ch(s, i - 1) \notin WordChars)
                 /\ LET n == SpanIn(Drop(s, i + 2), CharsOf(Digits))
                    IN  /\ n >= 1
                        /\ (i + 2 + n = Len(s)
                              \/ Ch(s, i + 3 + n) \notin WordChars)}
    IN  IF at = {} THEN ""
        ELSE SubSeq(s, MinOf(at) + 3,
                    MinOf(at) + 2 + SpanIn(Drop(s, MinOf(at) + 2), CharsOf(Digits)))

\* is_swr, lines 158-159
IsSwr(tok) == SwrDigits(Lower(tok)) # ""

\* swr_index, lines 161-162, of a token that is_swr
SwrIndex(tok) == ParseInt(SwrDigits(Lower(tok)))

\* endpoint_label, lines 164-171
EndpointLabel(tok) ==
    LET tl == Lower(tok)
    IN  IF Contains(tl, "left_spkr") THEN "Left Spk"
        ELSE IF Contains(tl, "right_spkr") THEN "Right Spk"
        ELSE IF Contains(tl, "wcd") \/ Contains(tl, "wsa") THEN Upper(tok)
        ELSE IF Contains(tl, "max98357") THEN "MAX98357A"
        ELSE SanitizeLabel(tok)

\* endpoint_type, lines 173-177
EndpointType(tok) ==
    LET tl == Lower(tok)
    IN  IF Contains(tl, "spkr") THEN "speaker"
        ELSE IF Contains(tl, "wsa") \/ Contains(tl, "max98357") THEN "amp"
        ELSE "codec"

\* The calls build_graph_json makes on node_map and edges, as data: which
\* calls it makes, and in which order, is told by the hardware nodes and by
\* the tokens of a link alone.
NodeCall(raw_id, label, ntype, full_name, parent) ==
    [op |-> "add_node", raw_id |-> raw_id, label |-> label, ntype |-> ntype,
     full_name |-> full_name, parent |-> parent]

EdgeCall(src_raw, dst_raw, label, kind) ==
    [op |-> "add_edge", src_raw |-> src_raw, dst_raw |-> dst_raw,
     label |-> label, kind |-> kind]

\* line 210: node_map[sid]['parent'] = parent
ParentCall(raw_id, parent) ==
    [op |-> "set_parent", raw_id |-> raw_id, parent |-> parent]

Call(g, c) ==
    IF c.op = "add_node"
    THEN AddNode(g, c.raw_id, c.label, c.ntype, c.full_name, c.parent)
    ELSE IF c.op = "add_edge"
    THEN AddEdge(g, c.kind, c.src_raw, c.dst_raw, c.label)
    ELSE [g EXCEPT !.nodes[NodeIndex(g, GetSafeId(c.raw_id))].parent = c.parent]

\* the hardware edges from every element of srcs to every element of dsts,
\* srcs outer
HardwareEdges(srcs, dsts) ==
    Flatten([i \in 1..Len(srcs) |->
        [j \in 1..Len(dsts) |-> EdgeCall(srcs[i], dsts[j], "", "hardware")]])

\* lines 190-199: the anchors and their three edges
AnchorCalls ==
    <<NodeCall("host.app", "App Framework", "component",
               "App Framework (AudioFlinger/ALSA)", "grp_host"),
      NodeCall("host.kdrv", "Kernel ALSA Drivers", "component",
               "Kernel ALSA Drivers", "grp_host"),
      NodeCall("host.ddr", "DMA Buffers (DDR)", "component",
               "DMA Buffers (DDR)", "grp_host"),
      NodeCall("lpass.spf", "Spf", "soc", "SPF (Signal Processing Framework)",
               "grp_lpass"),
      NodeCall("bus.pcm", "Pcm/Tdm Ports", "bus", "PCM/TDM Ports", "grp_buses"),
      NodeCall("bus.dmic", "Dmic Interface", "bus", "DMIC Interface",
               "grp_buses"),
      EdgeCall("host.app", "host.kdrv", "", "hardware"),
      EdgeCall("host.kdrv", "host.ddr", "", "hardware"),
      EdgeCall("host.ddr", "lpass.spf", "", "hardware")>>

\* lines 203-211: one hardware node
HardwareNodeCalls(n) ==
    IF ~IsHighLevelNode(n) THEN <<>>
    ELSE <<NodeCall(n.id, n.label, n.type, n.full_name, "")>>
         \o (IF n.id # "" /\ n.type = "sndcard"
             THEN <<ParentCall(n.id, "grp_host"),
                    EdgeCall(n.id, "host.kdrv", "", "hardware")>>
             ELSE <<>>)

\* lines 226-247: what a codec token is taken for
CodecClass(tok) ==
    IF tok = "" \/ IsPlatform(tok) THEN "skipped"
    ELSE IF IsMacro(tok) THEN "macro"
    ELSE IF IsSwr(tok) THEN "master"
    ELSE "endpoint"

\* line 238: idx not in masters, at the k-th codec token
NewMaster(codecs, k) ==
    ~\E j \in 1..(k - 1) :
        CodecClass(codecs[j]) = "master" /\ SwrIndex(codecs[j]) = SwrIndex(codecs[k])

\* lines 230-247: the node of the k-th codec token
CodecCalls(codecs, k) ==
    LET tok == codecs[k]
        class == CodecClass(tok)
    IN  IF class = "macro"
        THEN <<NodeCall("lpass." \o MacroName(tok)[1], MacroName(tok)[2], "soc",
                        "LPASS " \o MacroName(tok)[2], "grp_lpass")>>
        ELSE IF class = "master" /\ NewMaster(codecs, k)
        THEN <<NodeCall("bus.swr" \o Dec(SwrIndex(tok)),
                        "SWR" \o Dec(SwrIndex(tok)) \o " Master", "bus",
                        "SoundWire SWR" \o Dec(SwrIndex(tok)) \o " Master",
                        "grp_buses")>>
        ELSE IF class = "endpoint"
        THEN <<NodeCall(tok, EndpointLabel(tok), EndpointType(tok), tok,
                        IF EndpointType(tok) = "speaker" THEN "grp_speakers"
                        ELSE "grp_peripherals")>>
        ELSE <<>>

\* the positions of the codec tokens of a class
ClassAt(codecs, class) ==
    SelectSeq([k \in 1..Len(codecs) |-> k],
              LAMBDA k : CodecClass(codecs[k]) = class)

\* lines 231-233: the macro ids of the link, one per macro token
MacroIds(codecs) ==
    LET at == ClassAt(codecs, "macro")
    IN  [i \in 1..Len(at) |-> "lpass." \o MacroName(codecs[at[i]])[1]]

\* masters.items(), lines 237-241: the bus ids in insertion order
BusIds(codecs) ==
    LET at == SelectSeq(ClassAt(codecs, "master"),
                        LAMBDA k : NewMaster(codecs, k))
    IN  [i \in 1..Len(at) |-> "bus.swr" \o Dec(SwrIndex(codecs[at[i]]))]

\* line 247: the endpoints of the link
Endpoints(codecs) ==
    LET at == ClassAt(codecs, "endpoint")
    IN  [i \in 1..Len(at) |-> codecs[at[i]]]

IsSpkr(ep) == Contains(Lower(ep), "spkr")

IsWsa(ep) == Contains(Lower(ep), "wsa")

IsWcd(ep) == Contains(Lower(ep), "wcd")

\* lines 250-258 with the branch of line 256 taken by every link
SpfCallsDirect(mids, bids) == HardwareEdges(<<"lpass.spf">>, bids)

\* lines 250-258: SPF to the macros, or to the masters directly
SpfCalls(mids, bids) ==
    IF mids # <<>>
    THEN HardwareEdges(<<"lpass.spf">>, mids) \o HardwareEdges(mids, bids)
    ELSE HardwareEdges(<<"lpass.spf">>, bids)

\* lines 265-275 without the implicit amplifier: the test of line 265 fails
MasterCallsDirect(bid, endpoints) == HardwareEdges(<<bid>>, endpoints)

\* lines 265-275: one master of a link that has masters and endpoints
MasterCalls(bid, endpoints) ==
    LET NotSpkr(ep) == ~IsSpkr(ep)
    IN  IF SelectSeq(endpoints, IsSpkr) # <<>> /\ SelectSeq(endpoints, IsWsa) = <<>>
        THEN <<NodeCall("periph.wsa_auto", "Wsa Amplifier", "amp",
                        "WSA Amplifier", "grp_peripherals"),
               EdgeCall(bid, "periph.wsa_auto", "", "hardware")>>
             \o HardwareEdges(<<"periph.wsa_auto">>, SelectSeq(endpoints, IsSpkr))
             \o HardwareEdges(<<bid>>, SelectSeq(endpoints, NotSpkr))
        ELSE HardwareEdges(<<bid>>, endpoints)

\* lines 261-286: the masters, else the macros, else the PCM/TDM ports
EndpointCalls(mids, bids, endpoints) ==
    IF bids # <<>> /\ endpoints # <<>>
    THEN Flatten([i \in 1..Len(bids) |-> MasterCalls(bids[i], endpoints)])
    ELSE IF mids # <<>> /\ endpoints # <<>>
    THEN HardwareEdges(mids, endpoints)
    ELSE <<EdgeCall("lpass.spf", "bus.pcm", "", "hardware")>>
         \o HardwareEdges(<<"bus.pcm">>, endpoints)

\* lines 289-292: the VA macro path
VaMacroCalls(mids) ==
    IF \E k \in 1..Len(mids) : EndsWith(mids[k], ".vamacro")
    THEN <<EdgeCall("lpass.vamacro", "bus.dmic", "", "hardware"),
           NodeCall("periph.dmic", "DMICs", "component", "Digital Microphones",
                    "grp_peripherals"),
           EdgeCall("bus.dmic", "periph.dmic", "", "hardware")>>
    ELSE <<>>

\* lines 295-297 with the platform tokens left out
DaiEdgesSkippingPlatforms(cpus, codecs, name) ==
    LET NotPlatform(tok) == ~IsPlatform(tok)
        kept == SelectSeq(codecs, NotPlatform)
    IN  Flatten([i \in 1..Len(cpus) |->
            [j \in 1..Len(kept) |-> EdgeCall(cpus[i], kept[j], name, "dai")]])

\* lines 295-297: the DAI edges
DaiEdges(cpus, codecs, name) ==
    Flatten([i \in 1..Len(cpus) |->
        [j \in 1..Len(codecs) |-> EdgeCall(cpus[i], codecs[j], name, "dai")]])

\* lines 300-304: the sink of the WCD codecs
HeadsetCalls(endpoints) ==
    IF SelectSeq(endpoints, IsWcd) = <<>> THEN <<>>
    ELSE <<NodeCall("sink.headset", "Headphones / Earpiece", "speaker",
                    "Headphones / Earpiece", "grp_speakers")>>
         \o HardwareEdges(SelectSeq(endpoints, IsWcd), <<"sink.headset">>)

\* lines 215-304: one DAI link
LinkCalls(link) ==
    LET mids == MacroIds(link.codec)
        bids == BusIds(link.codec)
        endpoints == Endpoints(link.codec)
    IN  [i \in 1..Len(link.cpu) |->
            NodeCall(link.cpu[i], link.cpu[i], "cpu", link.cpu[i], "grp_lpass")]
        \o Flatten([k \in 1..Len(link.codec) |-> CodecCalls(link.codec, k)])
        \o SpfCalls(mids, bids)
        \o EndpointCalls(mids, bids, endpoints)
        \o VaMacroCalls(mids)
        \o DaiEdges(link.cpu, link.codec, RemoveChar(link.name, "\""))
        \o HeadsetCalls(endpoints)

\* the result without the loop of lines 307-308
AssignParentsNever(g) == g

\* lines 307-308: a parent for every node that has none
AssignParents(g) ==
    [g EXCEPT !.nodes = [i \in 1..Len(g.nodes) |->
                            EnsureParent(g, g.nodes[i].id).nodes[i]]]

\* lines 311-315: the DMIC node; node_map is keyed by safe ids
DmicCalls(g) ==
    IF /\ \E i \in 1..Len(g.nodes) :
              \/ Contains(Lower(g.nodes[i].label), "dmic")
              \/ Contains(Lower(g.nodes[i].full_name), "dmic")
       /\ NodeIndex(g, "periph.dmic") = 0
    THEN <<NodeCall("periph.dmic", "DMICs", "component", "Digital Microphones",
                    "grp_peripherals"),
           EdgeCall("bus.dmic", "periph.dmic", "", "hardware")>>
    ELSE <<>>

GraphOf(gr) == [nodes |-> gr.nodes, edges |-> gr.edges]

\* lines 190-211: the calls made before the DAI links
StartCalls(hw) ==
    AnchorCalls \o Flatten([i \in 1..Len(hw) |-> HardwareNodeCalls(hw[i])])

\* build_graph_json, lines 180-211: the groups, the anchors and the hardware
\* nodes of the model parse returned
GraphStart(p) ==
    /\ status[p] = "parsed"
    /\ graph[p].st = "new"
    /\ \E hw \in {GetHardwareNodes(nodes[p])} :
       \E cs \in {IF hw.kind = "raise" THEN <<>> ELSE StartCalls(hw.v)} :
       \E g \in {FoldSeq(Call, [nodes |-> Groups, edges |-> <<>>], cs)} :
          graph' = [graph EXCEPT ![p] =
              IF hw.kind = "raise" THEN [st |-> "raised"]
              ELSE [st |-> "links", next |-> 1, nodes |-> g.nodes,
                    edges |-> g.edges]]
    /\ UNCHANGED <<envVars, parserVars, diagrams, returned>>

\* build_graph_json, lines 214-304: the next DAI link
GraphLink(p) ==
    /\ graph[p].st = "links"
    /\ graph[p].next <= Len(dailinks[p])
    /\ \E cs \in {LinkCalls(dailinks[p][graph[p].next])} :
       \E g \in {FoldSeq(Call, GraphOf(graph[p]), cs)} :
          graph' = [graph EXCEPT ![p] =
              [st |-> "links", next |-> graph[p].next + 1,
               nodes |-> g.nodes, edges |-> g.edges]]
    /\ UNCHANGED <<envVars, parserVars, diagrams, returned>>

\* build_graph_json, lines 306-317: the parents, the DMIC node, the result
GraphFinish(p) ==
    /\ graph[p].st = "links"
    /\ graph[p].next > Len(dailinks[p])
    /\ \E g1 \in {AssignParents(GraphOf(graph[p]))} :
       \E g \in {FoldSeq(Call, g1, DmicCalls(g1))} :
          graph' = [graph EXCEPT ![p] =
              [st |-> "done", nodes |-> g.nodes, edges |-> g.edges]]
    /\ UNCHANGED <<envVars, parserVars, diagrams, returned>>

MaxBuilds == 2

\* build_graph_json is called again on the same builder and parser
GraphAgain(p) ==
    /\ graph[p].st = "done"
    /\ Len(returned[p]) < MaxBuilds - 1
    /\ returned' = [returned EXCEPT ![p] = Append(@, GraphOf(graph[p]))]
    /\ graph' = [graph EXCEPT ![p] = [st |-> "new"]]
    /\ UNCHANGED <<envVars, parserVars, diagrams>>

BuilderStep(p) ==
    \/ BuildAll(p)
    \/ GraphStart(p)
    \/ GraphLink(p)
    \/ GraphFinish(p)
    \/ GraphAgain(p)

-----------------------------------------------------------------------------
(* PathManager.get_dts_base_path.  A directory is the sequence of names    *)
(* from project_root to it; glob and os.walk give entries in the order of   *)
(* the file system, which is any order.                                     *)

SubDirs(t, dir) ==
    {q \in t : Len(q) = Len(dir) + 1 /\ SubSeq(q, 1, Len(dir)) = dir}

\* the sequences that hold every element of S once
Orders(S) ==
    {o \in [1..Cardinality(S) -> S] :
        \A i, j \in 1..Cardinality(S) : i # j => o[i] # o[j]}

\* line 33, below a tmp directory and a machine directory
KernelDts == <<"kernel-source", "arch", "arm64", "boot", "dts", "qcom">>

\* lines 28-34: glob(start/tmp*), then glob(tmp/work-shared/*/kernel-source/...);
\* `*` does not match a name that starts with a dot
YoctoMatchesUnder(t, start) ==
    LET tmps == {q \in SubDirs(t, start) : StartsWith(Last(q), "tmp")}
        machines == UNION {{m \in SubDirs(t, tmp \o <<"work-shared">>) :
                                ~StartsWith(Last(m), ".")} : tmp \in tmps}
    IN  {m \o KernelDts : m \in machines} \cap t

\* a build-output search that finds nothing
YoctoMatchesNever(t) == {}

\* lines 19-37: build/ first, then project_root; a start node without a match
\* is passed over
YoctoMatches(t) ==
    IF <<"build">> \in t /\ YoctoMatchesUnder(t, <<"build">>) # {}
    THEN YoctoMatchesUnder(t, <<"build">>)
    ELSE YoctoMatchesUnder(t, <<>>)

\* lines 40-44
StandardCandidates ==
    <<<<"arch", "arm64", "boot", "dts", "qcom">>,
      <<"linux", "arch", "arm64", "boot", "dts", "qcom">>,
      <<"kernel-source", "arch", "arm64", "boot", "dts", "qcom">>>>

\* lines 54-56
Pruned == {"out", ".git", "sstate-cache"}

\* line 59
WalkDepth == 4

Found(by, path) ==
    [st |-> "found", by |-> by, result |-> path, stack |-> <<>>, listed |-> pm.listed]

\* lines 13-37: the call starts with the build-output layout
YoctoSearch ==
    /\ pm.st = "new"
    /\ \/ \E m \in YoctoMatches(tree) : pm' = Found(1, m)
       \/ YoctoMatches(tree) = {} /\ pm' = [pm EXCEPT !.st = "standard"]
    /\ UNCHANGED <<fs, req, given, tree, sanitized, parserVars, builderVars>>

\* lines 40-48: the conventional layouts, in their order; then the walk
\* starts at project_root
StandardSearch ==
    /\ pm.st = "standard"
    /\ LET hits == {i \in 1..Len(StandardCandidates) : StandardCandidates[i] \in tree}
       IN  pm' = IF hits # {}
                 THEN Found(2, StandardCandidates[CHOOSE i \in hits :
                                                    \A j \in hits : i <= j])
                 ELSE [pm EXCEPT !.st = "walk", !.stack = <<<<>>>>]
    /\ UNCHANGED <<fs, req, given, tree, sanitized, parserVars, builderVars>>

\* lines 52-66: os.walk yields the next directory, top-down: it is listed,
\* the pruned names leave dirs, the depth test and the dts test run, and the
\* walk goes on into what is left of dirs
WalkStep ==
    /\ pm.st = "walk"
    /\ pm.stack # <<>>
    /\ LET root == Head(pm.stack)
           dirs == {q \in SubDirs(tree, root) : Last(q) \notin Pruned}
           listed == pm.listed \cup {root}
       IN  IF /\ Len(root) <= WalkDepth
              /\ root \o <<"dts">> \in dirs
              /\ root \o <<"dts", "qcom">> \in tree
           THEN pm' = [st |-> "found", by |-> 3, result |-> root \o <<"dts", "qcom">>,
                       stack |-> <<>>, listed |-> listed]
           ELSE \E o \in Orders(dirs) :
                    pm' = [pm EXCEPT !.stack = o \o Tail(pm.stack),
                                     !.listed = listed]
    /\ UNCHANGED <<fs, req, given, tree, sanitized, parserVars, builderVars>>

\* line 68: the walk is over, return None
WalkEnd ==
    /\ pm.st = "walk"
    /\ pm.stack = <<>>
    /\ pm' = [pm EXCEPT !.st = "none"]
    /\ UNCHANGED <<fs, req, given, tree, sanitized, parserVars, builderVars>>

\* no project is looked at: the specifications of the parser and the builder
NoProject ==
    /\ tree = {<<>>}
    /\ pm = [st |-> "new", by |-> 0, result |-> <<>>, stack |-> <<>>, listed |-> {}]

-----------------------------------------------------------------------------
(* Requests and inputs *)

Inst == {1, 2}

\* DtsParser.__init__, lines 17-23, for every instance
InitParsers ==
    /\ nodes = [p \in Inst |-> <<DtsNode("/", "", 0)>>]
    /\ labels = [p \in Inst |-> EmptyMap]
    /\ includes = [p \in Inst |-> {}]
    /\ routing = [p \in Inst |-> <<>>]
    /\ dailinks = [p \in Inst |-> <<>>]
    /\ calls = [p \in Inst |-> <<>>]
    /\ status = [p \in Inst |-> "new"]
    /\ diagrams = [p \in Inst |-> [st |-> "new"]]
    /\ graph = [p \in Inst |-> [st |-> "new"]]
    /\ returned = [p \in Inst |-> <<>>]

File(text) == [readable |-> TRUE, text |-> text]

Unreadable == [readable |-> FALSE, text |-> ""]

Concat(seq) == JoinWith(seq, "")

\* the sequences over S of length at most n
SeqsUpTo(S, n) == UNION {[1..k -> S] : k \in 0..n}

\* a file system: the files given, at their names under a base directory
FileSystem(base, files) ==
    [path \in {PathJoin(base, f) : f \in DOMAIN files} |->
        files[CHOOSE f \in DOMAIN files : PathJoin(base, f) = path]]

MaxChunks == 4

\* the pieces the entry file of the token family is made of
Chunks ==
    {"#include \"b.dtsi\"\n", "#include <a.dts>\n", "/ {", "n {", "&L {",
     "foo = \"bar\";", "}"}

\* what b.dtsi is when it exists: unreadable, a labelled node, or a file
\* that includes the entry file back and then amends the root
IncludedFiles ==
    {Unreadable, File("L: m { };"), File("#include \"a.dts\"\n/ { m { }; };")}

\* the entry file a.dts is any sequence of chunks; b.dtsi is absent or one
\* of IncludedFiles
InitParse ==
    /\ InitParsers
    /\ NoProject
    /\ NoCall
    /\ req = [p \in Inst |-> [base_path |-> "d", filename |-> "a.dts"]]
    /\ given = [family |-> "tokens"]
    /\ \E a \in SeqsUpTo(Chunks, MaxChunks) :
         \/ fs = FileSystem("d", [f \in {"a.dts"} |-> File(Concat(a))])
         \/ \E b \in IncludedFiles :
               fs = FileSystem("d", [f \in {"a.dts", "b.dtsi"} |->
                     IF f = "a.dts" THEN File(Concat(a)) ELSE b])

ParserStep(p) ==
    \/ Parse(p)
    \/ ResolveFile(p)
    \/ FollowInclude(p)
    \/ StartTokens(p)
    \/ OpenBrace(p)
    \/ CloseBrace(p)
    \/ Semicolon(p)
    \/ Text(p)
    \/ Return(p)
    \/ PostProcessRouting(p)
    \/ PostProcessDailinks(p)

NextParse == ParserStep(1)

SpecParse == InitParse /\ [][NextParse]_vars

-----------------------------------------------------------------------------
(* The sound-card family: a.dts is written from a description of a card,   *)
(* which `given` keeps.  A property, sub-node or value that the description *)
(* leaves out is kind "none"; one written without a value is kind "flag".   *)

None == [kind |-> "none", v |-> <<>>]

Flag == [kind |-> "flag", v |-> <<>>]

Val(v) == [kind |-> "val", v |-> v]

\* a string-list property: key = "q1", "q2";
StringsText(key, x) ==
    IF x.kind = "none" THEN ""
    ELSE IF x.kind = "flag" THEN " " \o key \o ";"
    ELSE " " \o key \o " = "
         \o JoinWith([i \in 1..Len(x.v) |-> Quoted(x.v[i])], ", ") \o ";"

\* a sub-node with a phandle list: sub { sound-dai = <&a 0>, <&b 0>; };
SubText(sub, x) ==
    IF x.kind = "none" THEN ""
    ELSE IF x.kind = "flag" THEN " " \o sub \o " { sound-dai; };"
    ELSE IF x.v = <<>> THEN " " \o sub \o " { };"
    ELSE " " \o sub \o " { sound-dai = "
         \o JoinWith([i \in 1..Len(x.v) |-> "<&" \o x.v[i] \o " 0>"], ", ")
         \o "; };"

\* a child of the card; a nested one is wrapped in a node of its own
LinkText(d) ==
    LET body == " " \o d.node \o " {"
                \o StringsText("link-name", d.name)
                \o SubText("cpu", d.cpu) \o SubText("codec", d.codec)
                \o SubText("platform", d.platform) \o " };"
    IN  IF d.nested THEN " grp {" \o body \o " };" ELSE body

CardText(c) ==
    "/ { " \o c.header \o " {"
    \o StringsText("compatible", c.compat)
    \o StringsText("audio-routing", c.routes)
    \o Concat([i \in 1..Len(c.links) |-> LinkText(c.links[i])])
    \o (IF c.flagged THEN " x { compatible; };" ELSE "")
    \o " }; };\n"

MaxRoute == 4

MaxLinks == 2

WidgetNames == {"SpkrLeft", "WSA_RX0"}

Routes == {None, Flag} \cup {Val(q) : q \in SeqsUpTo(WidgetNames, MaxRoute)}

CpuLists == {Val(<<"lpass_cpu0">>), Val(<<"lpass_cpu0", "lpass_cpu1">>)}

CodecLists ==
    {None, Val(<<"wcd_rx0", "q6apm">>),
     Val(<<"lpass_rxmacro", "swr0", "left_spkr">>)}

\* the node, the link-name and the platform sub-node of a child: a link by
\* its name, by both, by its link-name only, and a node that is no link
LinkHeads ==
    {[node |-> "dai-link0", name |-> Val(<<"Primary">>), platform |-> None],
     [node |-> "dai-link1", name |-> None, platform |-> Val(<<"q6apm">>)],
     [node |-> "be", name |-> Val(<<"Secondary">>), platform |-> Val(<<>>)],
     [node |-> "be", name |-> None, platform |-> None]}

LinkDesc(h, cpu, codec, nested) ==
    [node |-> h.node, name |-> h.name, cpu |-> cpu, codec |-> codec,
     platform |-> h.platform, nested |-> nested]

LinkDescs ==
    {LinkDesc(h, cpu, codec, FALSE) :
        h \in LinkHeads, cpu \in CpuLists, codec \in CodecLists}
    \cup {LinkDesc([node |-> "dai-link9", name |-> Val(<<"Nested">>),
                    platform |-> None],
                   Val(<<"lpass_cpu0">>), Val(<<"wcd_rx0">>), TRUE)}

\* a link with one valueless statement
FlagDescs ==
    LET h == [node |-> "dai-link0", name |-> Val(<<"Primary">>), platform |-> None]
        cpu == Val(<<"lpass_cpu0">>)
    IN  {LinkDesc([h EXCEPT !.name = Flag], cpu, None, FALSE),
         LinkDesc(h, Flag, None, FALSE),
         LinkDesc(h, cpu, Flag, FALSE),
         LinkDesc([h EXCEPT !.platform = Flag], cpu, None, FALSE)}

CardCompatible == Val(<<"qcom,audio-card">>)

\* the cards of the routing family: with or without a name, a compatible
\* string or a routing list that tells a sound card, no links
RoutingCards ==
    [family : {"routing"}, header : {"sound", "snd"},
     compat : {None, Flag, CardCompatible}, routes : Routes,
     links : {<<>>}, flagged : BOOLEAN, included : {FALSE}]

\* the cards of the link family: a sound card with up to MaxLinks children
LinkCards ==
    [family : {"links"}, header : {"sound"}, compat : {CardCompatible},
     routes : {None},
     links : SeqsUpTo(LinkDescs, MaxLinks) \cup {<<d>> : d \in FlagDescs},
     flagged : {FALSE}, included : {FALSE}]

IncludeLine(f) == "#include \"" \o f \o "\"\n"

\* the one-link cards again, kept in card.dtsi, which the board file includes
BoardCards ==
    {[c EXCEPT !.included = TRUE] : c \in {l \in LinkCards : Len(l.links) = 1}}

CardFiles(c) ==
    IF c.included
    THEN [f \in {"a.dts", "card.dtsi"} |->
            IF f = "a.dts" THEN File(IncludeLine("card.dtsi"))
            ELSE File(CardText(c))]
    ELSE [f \in {"a.dts"} |-> File(CardText(c))]

Init ==
    /\ InitParsers
    /\ NoProject
    /\ NoCall
    /\ req = [p \in Inst |-> [base_path |-> "d", filename |-> "a.dts"]]
    /\ given \in RoutingCards \cup LinkCards \cup BoardCards
    /\ fs = FileSystem("d", CardFiles(given))

Next == ParserStep(1) \/ BuilderStep(1)

Spec == Init /\ [][Next]_vars

-----------------------------------------------------------------------------
(* The twice-included family: instance 1 parses an entry file that reaches *)
(* b.dtsi twice, instance 2, after it, the same entry file reaching it once *)

MaxBody == 3

BodyChunks == {"n {", "&L {", "foo = \"bar\";", "}"}

\* b.dtsi is reached twice: by two lines of a.dts ("direct"), or by a line of
\* a.dts and a line of c.dtsi, which a.dts includes too ("transitive")
TwiceFiles(kind, body, b) ==
    IF kind = "direct"
    THEN [f \in {"a.dts", "b.dtsi"} |->
            IF f = "a.dts"
            THEN File(IncludeLine("b.dtsi") \o IncludeLine("b.dtsi") \o body)
            ELSE File(b)]
    ELSE [f \in {"a.dts", "b.dtsi", "c.dtsi"} |->
            IF f = "a.dts"
            THEN File(IncludeLine("b.dtsi") \o IncludeLine("c.dtsi") \o body)
            ELSE IF f = "b.dtsi" THEN File(b)
            ELSE File(IncludeLine("b.dtsi") \o "/ { k { }; };")]

\* the same files with one of the two include lines left out
OnceFiles(kind, body, b) ==
    IF kind = "direct"
    THEN [f \in {"a.dts", "b.dtsi"} |->
            IF f = "a.dts" THEN File(IncludeLine("b.dtsi") \o body) ELSE File(b)]
    ELSE [f \in {"a.dts", "b.dtsi", "c.dtsi"} |->
            IF f = "a.dts"
            THEN File(IncludeLine("b.dtsi") \o IncludeLine("c.dtsi") \o body)
            ELSE IF f = "b.dtsi" THEN File(b)
            ELSE File("/ { k { }; };")]

InitTwice ==
    /\ InitParsers
    /\ NoProject
    /\ NoCall
    /\ req = [p \in Inst |-> [base_path |-> IF p = 1 THEN "d1" ELSE "d2",
                              filename |-> "a.dts"]]
    /\ \E kind \in {"direct", "transitive"} :
       \E body \in SeqsUpTo(BodyChunks, MaxBody) :
       \E b \in {"L: m { };", "/ { m { }; };"} :
          /\ given = [family |-> "twice", kind |-> kind]
          /\ fs = FileSystem("d1", TwiceFiles(kind, Concat(body), b))
                  @@ FileSystem("d2", OnceFiles(kind, Concat(body), b))

Ended(p) == status[p] \in {"parsed", "raised"}

\* the run on the files that reach b.dtsi twice, then the run on the others
NextTwice ==
    \/ ParserStep(1)
    \/ Ended(1) /\ ParserStep(2)

SpecTwice == InitTwice /\ [][NextTwice]_vars

-----------------------------------------------------------------------------
(* The reordered family: instance 1 parses and builds a card with two DAI   *)
(* links, instance 2, after it, the same card with the links, the cpu lists *)
(* or the codec lists in the other order.  The card is in card.dtsi.        *)

Reverse(seq) == [i \in 1..Len(seq) |-> seq[Len(seq) + 1 - i]]

OrderCpus == {<<"lpass_cpu0">>, <<"lpass_cpu0", "wcd_rx0">>}

OrderCodecs == {<<"wcd_rx0", "left_spkr">>, <<"lpass_rxmacro", "swr0">>}

OrderLinks(node, name) ==
    {LinkDesc([node |-> node, name |-> name, platform |-> None],
              Val(cpu), Val(codec), FALSE) :
        cpu \in OrderCpus, codec \in OrderCodecs}

Reordered(kind, links) ==
    IF kind = "links" THEN Reverse(links)
    ELSE IF kind = "cpu"
    THEN [i \in 1..Len(links) |->
            [links[i] EXCEPT !.cpu = Val(Reverse(links[i].cpu.v))]]
    ELSE [i \in 1..Len(links) |->
            [links[i] EXCEPT !.codec = Val(Reverse(links[i].codec.v))]]

OrderCard(links) ==
    [family |-> "order", header |-> "sound", compat |-> CardCompatible,
     routes |-> None, links |-> links, flagged |-> FALSE, included |-> TRUE]

InitOrder ==
    /\ InitParsers
    /\ NoProject
    /\ NoCall
    /\ req = [p \in Inst |-> [base_path |-> IF p = 1 THEN "d1" ELSE "d2",
                              filename |-> "a.dts"]]
    /\ \E kind \in {"links", "cpu", "codec"} :
       \E l1 \in OrderLinks("dai-link0", Val(<<"Primary">>)) :
       \E l2 \in OrderLinks("dai-link1", None) :
          /\ given = [family |-> "order", kind |-> kind, links |-> <<l1, l2>>]
          /\ fs = FileSystem("d1", CardFiles(OrderCard(<<l1, l2>>)))
                  @@ FileSystem("d2",
                        CardFiles(OrderCard(Reordered(kind, <<l1, l2>>))))

\* the request has its diagrams and its graph, or an error
Served(p) ==
    \/ status[p] = "raised"
    \/ diagrams[p].st \in {"built", "raised"} /\ graph[p].st \in {"done", "raised"}

NextOrder ==
    \/ ParserStep(1)
    \/ BuilderStep(1)
    \/ Served(1) /\ ParserStep(2)
    \/ Served(1) /\ BuilderStep(2)

SpecOrder == InitOrder /\ [][NextOrder]_vars

-----------------------------------------------------------------------------
(* Two requests at once: each instance serves a request for a.dts, a board *)
(* file that includes the card, or for b.dts; their steps interleave       *)

PairCards ==
    {OrderCard(<<LinkDesc([node |-> "dai-link0", name |-> Val(<<"Primary">>),
                           platform |-> None],
                          Val(<<"lpass_cpu0">>), Val(codec), FALSE)>>) :
        codec \in {<<"wcd_rx0">>, <<"lpass_rxmacro", "swr0">>}}

PairFiles(c) ==
    [f \in {"a.dts", "card.dtsi", "b.dts"} |->
        IF f = "a.dts" THEN File(IncludeLine("card.dtsi"))
        ELSE IF f = "card.dtsi" THEN File(CardText(c))
        ELSE File("L: lpass_m { foo; }; &L { bar = \"1\"; };")]

InitPair ==
    /\ InitParsers
    /\ NoProject
    /\ NoCall
    /\ req \in [Inst -> [base_path : {"d"}, filename : {"a.dts", "b.dts"}]]
    /\ \E c \in PairCards :
          /\ given = [family |-> "pair", links |-> c.links]
          /\ fs = FileSystem("d", PairFiles(c))

NextPair == \E p \in Inst : ParserStep(p) \/ BuilderStep(p)

SpecPair == InitPair /\ [][NextPair]_vars

-----------------------------------------------------------------------------
(* The project trees: project_root with up to MaxLayouts of these branches *)

MaxLayouts == 3

Layouts ==
    {<<"build", "tmp", "work-shared", "m">> \o KernelDts,
     <<"build", "tmp-glibc", "work-shared", "n">> \o KernelDts,
     <<"tmp-glibc", "work-shared", "m">> \o KernelDts,
     <<"build", "tmp", "work-shared", ".m">> \o KernelDts,
     <<"arch", "arm64", "boot", "dts", "qcom">>,
     <<"linux", "arch", "arm64", "boot", "dts", "qcom">>,
     KernelDts,
     <<"a", "dts", "qcom">>,
     <<"a", "b", "c", "d", "dts", "qcom">>,
     <<"a", "b", "c", "d", "e", "dts", "qcom">>,
     <<"out", "dts", "qcom">>,
     <<"a", ".git", "dts", "qcom">>,
     <<"v", "w", "x", "y", "z", "u", "t">>}

\* the directories on the way to the given ones
WithParents(paths) ==
    {<<>>} \cup UNION {{SubSeq(q, 1, n) : n \in 1..Len(q)} : q \in paths}

InitLocate ==
    /\ InitParsers
    /\ req = [p \in Inst |-> [base_path |-> "d", filename |-> "a.dts"]]
    /\ fs = FileSystem("d", [f \in {} |-> Unreadable])
    /\ \E chosen \in {c \in SUBSET Layouts : Cardinality(c) <= MaxLayouts} :
          /\ given = [family |-> "project", layouts |-> chosen]
          /\ tree = WithParents(chosen)
    /\ pm = [st |-> "new", by |-> 0, result |-> <<>>, stack |-> <<>>, listed |-> {}]
    /\ NoCall

NextLocate == YoctoSearch \/ StandardSearch \/ WalkStep \/ WalkEnd

SpecLocate == InitLocate /\ [][NextLocate]_vars

-----------------------------------------------------------------------------
(* Claims about the tokenizer and the includes (SpecParse, SpecTwice) *)

\* the text of a header after its last line break: the header as written in
\* a file whose earlier lines are preprocessor lines
LastLine(h) == Strip(Drop(h, LastIndexOf(h, "\n")))

\* C3: every `/ { ... }` block amends the root, also when it follows the
\* file's #include lines: no node is ever created for a block whose header
\* is `/`.
C3_RootBlocksAmendRoot ==
    \A i \in 2..Len(nodes[1]) : LastLine(nodes[1][i].name) # "/"

\* the activations that have passed line 48
Entered(p) == {k \in 1..Len(calls[p]) : calls[p][k].phase # "resolve"}

\* a file is in the include set before its includes are followed, and no
\* file is entered twice
IncludeGuard ==
    \A k \in Entered(1) :
        /\ calls[1][k].path \in includes[1]
        /\ \A j \in Entered(1) : j # k => calls[1][j].path # calls[1][k].path

ParseEnded == status[1] \in {"parsed", "raised"}

\* a bound on what an activation still has to do: its includes, then its
\* tokens, of which a text of n characters has at most 2n + 1
FrameWork(f) ==
    IF f.phase = "resolve" THEN 1
    ELSE IF f.phase = "includes"
    THEN 2 * Len(f.incs) + 2 * Len(fs[f.path].text) + 3
    ELSE Len(f.toks) + 1

RECURSIVE WorkLeft(_)
WorkLeft(frames) ==
    IF frames = <<>> THEN 0 ELSE FrameWork(Head(frames)) + WorkLeft(Tail(frames))

StatusRank(st) ==
    IF st = "new" THEN 3 ELSE IF st = "parsing" THEN 2
    ELSE IF st = "routed" THEN 1 ELSE 0

\* the measure of parse(): the stage, the files not yet in the include set,
\* the work left in the activations
Rank(st, incl, frames) ==
    <<StatusRank(st), Cardinality(DOMAIN fs \ incl), WorkLeft(frames)>>

LexLess(a, b) ==
    \/ a[1] < b[1]
    \/ a[1] = b[1] /\ a[2] < b[2]
    \/ a[1] = b[1] /\ a[2] = b[2] /\ a[3] < b[3]

\* C4: parse terminates for every set of files, include cycles among them:
\* a file is in the include set before its includes are followed and is not
\* entered again, and every step of parse() lowers a measure that cannot
\* fall forever.
C4_ParseTerminates ==
    /\ []IncludeGuard
    /\ [][LexLess(Rank(status'[1], includes'[1], calls'[1]),
                  Rank(status[1], includes[1], calls[1]))]_vars

\* the include names of a file of the file system ("" when absent)
IncludesOf(path) ==
    IF path \in DOMAIN fs /\ fs[path].readable
    THEN {FindIncludes(fs[path].text)[i] :
            i \in 1..Len(FindIncludes(fs[path].text))}
    ELSE {}

\* C4's case: a.dts includes b.dtsi, b.dtsi includes a.dts, parse is over
C4_Witness ==
    /\ ParseEnded
    /\ "b.dtsi" \in IncludesOf("d/a.dts")
    /\ "a.dts" \in IncludesOf("d/b.dtsi")
    /\ includes[1] = {"d/a.dts", "d/b.dtsi"}

\* the include set without the base directory of the instance
RelativeIncludes(p) ==
    {Drop(path, Len(req[p].base_path) + 1) : path \in includes[p]}

\* C5: reaching a file twice, directly or through another file, gives the
\* tree, the labels and the include set that reaching it once gives.
C5_TwiceAsOnce ==
    (Ended(1) /\ Ended(2)) =>
        /\ nodes[1] = nodes[2]
        /\ labels[1] = labels[2]
        /\ RelativeIncludes(1) = RelativeIncludes(2)

\* the header at a '{' token
HeaderAt(p) == HeaderName(Strip(Top(p).buffer))

UnresolvedRefAt(p) ==
    /\ AtToken(p, "{")
    /\ IsRefName(HeaderAt(p))
    /\ Drop(HeaderAt(p), 1) \notin DOMAIN labels[p]

\* the stack holds the node of an unresolved reference: its top two entries
\* are one node
InsideFallback(p) ==
    /\ InPhase(p, "tokens")
    /\ Len(Top(p).stack) >= 2
    /\ Top(p).stack[Len(Top(p).stack)] = Top(p).stack[Len(Top(p).stack) - 1]

BindsLabel(text, label) ==
    LET toks == Tokenize(text)
    IN  \E k \in 1..(Len(toks) - 1) :
            toks[k + 1] = "{" /\ HeaderLabel(Strip(toks[k])) = label

\* an included file, not the entry file, binds the label
BoundByInclude(label) ==
    \E path \in includes[1] \ {PathJoin(req[1].base_path, req[1].filename)} :
        fs[path].readable /\ BindsLabel(fs[path].text, label)

\* C7: the includes of a file are parsed before its body, so a block `&L`
\* whose label an included file binds amends the labelled node: no node is
\* created for a block that refers to such a label.
C7_ReferenceAmendsIncluded ==
    \A i \in 2..Len(nodes[1]) :
        LET h == LastLine(nodes[1][i].name)
        IN  ~(IsRefName(h) /\ BoundByInclude(Drop(h, 1)))

\* the places (j, k) where node i is in a children list
PlacesOf(ns, i) ==
    {jk \in (1..Len(ns)) \X (1..Len(ns)) :
        jk[2] <= Len(ns[jk[1]].children) /\ ns[jk[1]].children[jk[2]] = i}

\* the root has no parent and is nobody's child; every other node was made
\* after its parent and is, once, in that parent's children and nowhere else
IsTree(ns) ==
    /\ ns[1].parent = 0
    /\ PlacesOf(ns, 1) = {}
    /\ \A i \in 2..Len(ns) :
          /\ ns[i].parent \in 1..(i - 1)
          /\ Cardinality(PlacesOf(ns, i)) = 1
          /\ \A jk \in PlacesOf(ns, i) : jk[1] = ns[i].parent

\* C19: the parsed nodes are a tree at every point of the parse, and no step,
\* a re-entry through `/` or `&label` included, changes the parent of a node
\* or puts a node that exists into a children list.
C19_NodesFormTree ==
    /\ []IsTree(nodes[1])
    /\ [][\A i \in 1..Len(nodes[1]) :
            /\ nodes'[1][i].parent = nodes[1][i].parent
            /\ Len(nodes'[1][i].children) >= Len(nodes[1][i].children)
            /\ \A k \in 1..Len(nodes'[1][i].children) :
                  IF k <= Len(nodes[1][i].children)
                  THEN nodes'[1][i].children[k] = nodes[1][i].children[k]
                  ELSE nodes'[1][i].children[k] > Len(nodes[1])]_vars

\* C19's case: a node was re-entered through its label from inside another
\* node, and a new node was made inside it
C19_Witness ==
    /\ InPhase(1, "tokens")
    /\ Len(Top(1).stack) >= 4
    /\ LET st == Top(1).stack
           n == Len(Top(1).stack)
       IN  /\ nodes[1][st[n]].parent = st[n - 1]
           /\ st[n - 1] # 1
           /\ nodes[1][st[n - 1]].parent # st[n - 2]
           /\ nodes[1][st[n - 1]].label = "L"

\* C20: while a file is tokenized the stack is never empty and its bottom is
\* the root; `}` pops one entry only from a stack of more than one and `{`
\* pushes exactly one.
C20_StackKeepsRoot ==
    /\ [](\A k \in 1..Len(calls[1]) :
            calls[1][k].phase = "tokens" =>
                /\ calls[1][k].stack # <<>>
                /\ calls[1][k].stack[1] = 1)
    /\ [][/\ AtToken(1, "}") =>
               Top(1)'.stack = IF Len(Top(1).stack) > 1
                               THEN Front(Top(1).stack) ELSE Top(1).stack
          /\ AtToken(1, "{") =>
               /\ Len(Top(1)'.stack) = Len(Top(1).stack) + 1
               /\ Front(Top(1)'.stack) = Top(1).stack]_vars

\* C20's case: the entry file opens with two unmatched `}` and then a block;
\* the block's node is on the root
C20_Witness ==
    /\ InPhase(1, "tokens")
    /\ Top(1).file = "a.dts"
    /\ StartsWith(fs["d/a.dts"].text, "}}n {")
    /\ Top(1).stack = <<1, 2>>
    /\ nodes[1][2].parent = 1

-----------------------------------------------------------------------------
(* Claims about the sound card and its diagrams (Spec) *)

\* C2: no build operation raises on a model parse returned: build_all and
\* build_graph_json both end with a result.
C2_BuildNeverRaises == diagrams[1].st # "raised" /\ graph[1].st # "raised"

\* the links build_graph_json has gone through
LinksWired ==
    IF graph[1].st = "done" THEN Len(dailinks[1])
    ELSE IF graph[1].st = "links" THEN graph[1].next - 1
    ELSE 0

HasNode(raw_id) == \E i \in 1..Len(graph[1].nodes) :
                        graph[1].nodes[i].id = GetSafeId(raw_id)

HasDaiEdge(cpu, codec, name) ==
    \E e \in 1..Len(graph[1].edges) :
        graph[1].edges[e] = [source |-> GetSafeId(cpu), target |-> GetSafeId(codec),
                             kind |-> "dai", label |-> name]

\* C10: for every DAI link build_graph_json has gone through and every pair
\* (cpu, codec) of its lists, the graph has the node of the cpu, the node of
\* the codec and an edge of kind dai between them that carries the link's
\* name, whatever the codec token was taken for.
C10_DaiEdgesPreserved ==
    \A k \in 1..LinksWired :
        \A i \in 1..Len(dailinks[1][k].cpu) :
            \A j \in 1..Len(dailinks[1][k].codec) :
                /\ HasNode(dailinks[1][k].cpu[i])
                /\ HasNode(dailinks[1][k].codec[j])
                /\ HasDaiEdge(dailinks[1][k].cpu[i], dailinks[1][k].codec[j],
                              dailinks[1][k].name)

\* C10's case: the graph is built for two links whose codecs are a macro, a
\* bus master, a speaker, a codec and the platform
C10_Witness ==
    /\ graph[1].st = "done"
    /\ Len(dailinks[1]) = 2
    /\ dailinks[1][1].codec = <<"lpass_rxmacro", "swr0", "left_spkr">>
    /\ dailinks[1][2].codec = <<"wcd_rx0", "q6apm">>
    /\ dailinks[1][2].cpu = <<"lpass_cpu0", "lpass_cpu1">>
    /\ HasDaiEdge("lpass_cpu1", "q6apm", dailinks[1][2].name)
    /\ HasDaiEdge("lpass_cpu0", "swr0", dailinks[1][1].name)

\* C1: parse never raises, whatever the statements of the text: also with
\* a valueless `compatible;`, `audio-routing;`, `link-name;` or `sound-dai;`
\* parse ends with a model.
C1_ParseNeverRaises == status[1] # "raised"

\* the pairs (q1,q2), (q3,q4), ... of the strings written in the card
ExpectedRouting(c) ==
    IF c.routes.kind # "val" THEN <<>>
    ELSE [j \in 1..(Len(c.routes.v) \div 2) |->
            <<c.routes.v[2 * j - 1], c.routes.v[2 * j]>>]

\* C8: once the routing step of parse has run, the routing is the pairs
\* (q1,q2), (q3,q4), ... of the quoted strings of the card's audio-routing
\* value, in order, floor(n/2) of them, the last string of an odd n dropped;
\* it is empty when the card has no audio-routing property or no sound card
\* is found.
C8_RoutingPairs ==
    status[1] \in {"routed", "parsed"} => routing[1] = ExpectedRouting(given)

\* C8's case: three strings were written and one pair came out
C8_Witness ==
    /\ status[1] = "parsed"
    /\ given.routes = Val(<<"SpkrLeft", "WSA_RX0", "SpkrLeft">>)
    /\ routing[1] = <<<<"SpkrLeft", "WSA_RX0">>>>

ListOf(x) == IF x.kind = "val" THEN x.v ELSE <<>>

\* the child written from d is a DAI link of the card
IsLinkChild(d) ==
    ~d.nested /\ (Contains(d.node, "dai-link") \/ d.name.kind # "none")

\* the DaiLink of the child written from d
ExpectedLink(d) ==
    [name |-> IF d.name.kind = "val" THEN d.name.v[1] ELSE d.node,
     cpu |-> ListOf(d.cpu), codec |-> ListOf(d.codec),
     platform |-> ListOf(d.platform)]

ExpectedLinks(ds) ==
    LET kept == SelectSeq(ds, IsLinkChild)
    IN  [i \in 1..Len(kept) |-> ExpectedLink(kept[i])]

\* C9: after parse the model holds one DaiLink per direct child of the sound
\* card that is named dai-link or has a link-name, in child order, and none
\* for another node; its name is the link-name without quotes, else the
\* child's name, and cpu, codec and platform are the labels after `&` in the
\* sound-dai of the sub-node of that name, empty when there is none.
C9_DaiLinkExtraction ==
    (given.family = "links" /\ status[1] = "parsed")
        => dailinks[1] = ExpectedLinks(given.links)

\* C9's case: a named link, then a node that is a link by its link-name only
C9_Witness ==
    /\ status[1] = "parsed"
    /\ Len(given.links) = 2
    /\ given.links[1].node = "dai-link0"
    /\ given.links[2].node = "be"
    /\ Len(dailinks[1]) = 2
    /\ dailinks[1][1].name = "Primary"
    /\ dailinks[1][1].cpu = <<"lpass_cpu0">>
    /\ dailinks[1][1].codec = <<"wcd_rx0", "q6apm">>
    /\ dailinks[1][2].name = "Secondary"
    /\ dailinks[1][2].codec = <<>>

-----------------------------------------------------------------------------
(* Claims about the graph of build_graph_json (Spec) *)

HasRoutingEdge(a, b) ==
    \E e \in 1..Len(graph[1].edges) :
        /\ graph[1].edges[e].kind = "routing"
        /\ graph[1].edges[e].source = GetSafeId(a)
        /\ graph[1].edges[e].target = GetSafeId(b)

\* C11: the graph build_graph_json returns has, for every routing pair
\* (a, b) of the parsed model, a node for a, a node for b and an edge of kind
\* routing between them.
C11_RoutingEdges ==
    graph[1].st = "done" =>
        \A k \in 1..Len(routing[1]) :
            /\ HasNode(routing[1][k][1])
            /\ HasNode(routing[1][k][2])
            /\ HasRoutingEdge(routing[1][k][1], routing[1][k][2])

GroupsTopLevel(g) ==
    \A i \in 1..Len(g.nodes) : g.nodes[i].type = "group" => g.nodes[i].parent = ""

\* one call of the build, and whether the groups were top-level after every
\* call so far
CallAndLook(acc, c) ==
    [g |-> Call(acc.g, c), ok |-> acc.ok /\ GroupsTopLevel(Call(acc.g, c))]

\* the graph the next builder step starts from and the calls it makes
Pending ==
    IF graph[1].st = "new" /\ status[1] = "parsed"
          /\ GetHardwareNodes(nodes[1]).kind # "raise"
    THEN [g |-> [nodes |-> Groups, edges |-> <<>>],
          cs |-> StartCalls(GetHardwareNodes(nodes[1]).v)]
    ELSE IF graph[1].st = "links" /\ graph[1].next <= Len(dailinks[1])
    THEN [g |-> GraphOf(graph[1]), cs |-> LinkCalls(dailinks[1][graph[1].next])]
    ELSE IF graph[1].st = "links"
    THEN [g |-> AssignParents(GraphOf(graph[1])),
          cs |-> DmicCalls(AssignParents(GraphOf(graph[1])))]
    ELSE [g |-> [nodes |-> Groups, edges |-> <<>>], cs |-> <<>>]

\* C12: no node of type group has a parent, in the graph build_graph_json
\* returns and after every add_node, add_edge and ensure_parent call on the
\* way to it.
C12_GroupsStayTopLevel ==
    /\ graph[1].st \in {"links", "done"} => GroupsTopLevel(graph[1])
    /\ \A pending \in {Pending} :
          /\ GroupsTopLevel(pending.g)
          /\ FoldSeq(CallAndLook, [g |-> pending.g, ok |-> TRUE], pending.cs).ok

\* C12's case: the graph of two links is returned, every other node has a
\* lane and the five groups have none
C12_Witness ==
    /\ graph[1].st = "done"
    /\ Len(dailinks[1]) = 2
    /\ Cardinality({i \in 1..Len(graph[1].nodes) :
                        graph[1].nodes[i].type = "group"}) = 5
    /\ \A i \in 1..Len(graph[1].nodes) :
          graph[1].nodes[i].type # "group" =>
              graph[1].nodes[i].parent \in {Groups[k].id : k \in 1..Len(Groups)}

\* what build_graph_json returns for the model of an empty tree
EmptyModelGraph ==
    FoldSeq(Call,
            AssignParents(FoldSeq(Call, [nodes |-> Groups, edges |-> <<>>],
                                  AnchorCalls)),
            DmicCalls(AssignParents(FoldSeq(Call,
                                  [nodes |-> Groups, edges |-> <<>>],
                                  AnchorCalls))))

\* a parsed model without a sound card, without DAI links or with a bare root
Sparse ==
    /\ status[1] = "parsed"
    /\ \/ GetSoundCardNode(nodes[1]).kind # "node"
       \/ dailinks[1] = <<>>
       \/ Len(nodes[1]) = 1

\* C13: on a parsed model without a sound card, without DAI links or with an
\* empty tree, build_graph_json raises nothing and returns the nodes and
\* edges it returns for the empty model, nothing else.
C13_SkeletonOnly ==
    (Sparse /\ graph[1].st \in {"done", "raised"}) =>
        /\ graph[1].st = "done"
        /\ graph[1].nodes = EmptyModelGraph.nodes
        /\ graph[1].edges = EmptyModelGraph.edges

-----------------------------------------------------------------------------
(* Claims about two builds (SpecOrder) *)

\* the nodes of the returned graph with their types and lanes
Lanes(p) ==
    {[id |-> graph[p].nodes[i].id, type |-> graph[p].nodes[i].type,
      parent |-> graph[p].nodes[i].parent] : i \in 1..Len(graph[p].nodes)}

\* C14: two models that differ only in the order of the DAI links, or of the
\* identifiers in the cpu and codec lists, give graphs with the same nodes,
\* each of the same type and in the same lane.
C14_LanesIgnoreOrder ==
    (graph[1].st = "done" /\ graph[2].st = "done") => Lanes(1) = Lanes(2)

-----------------------------------------------------------------------------
(* Claims about repeated and concurrent requests (Spec, SpecPair) *)

Local(p) ==
    <<nodes[p], labels[p], includes[p], routing[p], dailinks[p], calls[p],
      status[p], diagrams[p], graph[p], returned[p]>>

\* what a request gives back
Result(p) ==
    <<status[p], nodes[p], labels[p], includes[p], routing[p], dailinks[p],
      diagrams[p], graph[p]>>

\* C16: two requests that run at once, each on its own parser and builder,
\* do not affect each other: a step of one changes nothing the other owns,
\* two requests for the same file are in the same state whenever they are at
\* the same point of the parse, and they give back the same tree, labels,
\* include set, diagrams and graph under every interleaving, the one where
\* each runs alone included.
C16_RequestsIndependent ==
    /\ [](\A p, q \in Inst :
            req[p] = req[q] =>
              /\ (calls[p] = calls[q] /\ status[p] = status[q]) =>
                    /\ nodes[p] = nodes[q]
                    /\ labels[p] = labels[q]
                    /\ includes[p] = includes[q]
              /\ (Served(p) /\ Served(q)) => Result(p) = Result(q))
    /\ [][/\ fs' = fs
          /\ req' = req
          /\ \A p \in Inst :
                Local(p)' # Local(p) =>
                    \A q \in Inst \ {p} : Local(q)' = Local(q)]_vars

\* C16's case: two requests for the board file have both been served with a
\* graph, one of them having rebuilt its graph meanwhile
C16_Witness ==
    /\ req[1] = req[2]
    /\ req[1].filename = "a.dts"
    /\ graph[1].st = "done" /\ graph[2].st = "done"
    /\ diagrams[1].st = "built" /\ diagrams[2].st = "built"
    /\ Cardinality(includes[2]) = 2
    /\ Len(returned[1]) = 1 /\ Len(returned[2]) = 0
    /\ Len(graph[2].edges) > Len(EmptyModelGraph.edges)

-----------------------------------------------------------------------------
(* Claims about the source locator (SpecLocate) *)

\* q is start/tmp*/work-shared/<machine>/kernel-source/arch/arm64/boot/dts/qcom
IsBuildOutput(q, start) ==
    /\ Len(q) = Len(start) + 3 + Len(KernelDts)
    /\ SubSeq(q, 1, Len(start)) = start
    /\ StartsWith(q[Len(start) + 1], "tmp")
    /\ q[Len(start) + 2] = "work-shared"
    /\ ~StartsWith(q[Len(start) + 3], ".")
    /\ SubSeq(q, Len(start) + 4, Len(q)) = KernelDts

BuildOutput == {q \in tree : IsBuildOutput(q, <<"build">>) \/ IsBuildOutput(q, <<>>)}

Conventional ==
    {q \in tree : \E i \in 1..Len(StandardCandidates) : q = StandardCandidates[i]}

\* q is X/dts/qcom for a directory X the walk tests
WalkMatches ==
    {q \in tree :
        /\ Len(q) >= 2
        /\ Len(q) <= WalkDepth + 2
        /\ q[Len(q) - 1] = "dts"
        /\ q[Len(q)] = "qcom"
        /\ \A k \in 1..(Len(q) - 2) : q[k] \notin Pruned}

\* C17: the strategies run in the order build-output layout, conventional
\* layout, directory walk; the result is a match of the first strategy that
\* has one, whatever the later ones would find, and None, with no error,
\* when none has a match.
C17_FirstStrategyWins ==
    /\ pm.st = "found" =>
          /\ pm.by = IF BuildOutput # {} THEN 1
                     ELSE IF Conventional # {} THEN 2 ELSE 3
          /\ pm.by = 1 => pm.result \in BuildOutput
          /\ pm.by = 2 => pm.result \in Conventional
          /\ pm.by = 3 => pm.result \in WalkMatches
    /\ pm.st = "none" =>
          BuildOutput = {} /\ Conventional = {} /\ WalkMatches = {}

\* C17's case: the build-output match is returned from a project that has a
\* conventional layout and a match for the walk as well
C17_Witness ==
    /\ pm.st = "found"
    /\ pm.by = 1
    /\ Conventional # {}
    /\ WalkMatches \ Conventional # {}

\* C18: the walk lists no directory deeper below project_root than the depth
\* of line 59 (one level more is granted here).
C18_WalkDepthBounded ==
    \A d \in pm.listed : Len(d) <= WalkDepth + 1

-----------------------------------------------------------------------------
(* The discovery family: card.dtsi holds up to MaxPlaces nodes under the   *)
(* root, each with one sign of a sound card or none, directly under the    *)
(* root or wrapped in a node of its own; a.dts includes card.dtsi          *)

MaxPlaces == 3

Signs == {"routing", "compat", "name", "plain"}

Places == [sign : Signs, nested : BOOLEAN]

SignText(sign) ==
    IF sign = "routing" THEN " amp { audio-routing = \"A\", \"B\"; };"
    ELSE IF sign = "compat" THEN " card { compatible = \"qcom,sndcard\"; };"
    ELSE IF sign = "name" THEN " sound { };"
    ELSE " n { };"

PlaceText(pl) ==
    IF pl.nested THEN " w {" \o SignText(pl.sign) \o " };" ELSE SignText(pl.sign)

PlacesText(pls) ==
    "/ {" \o Concat([i \in 1..Len(pls) |-> PlaceText(pls[i])]) \o " };\n"

InitFind ==
    /\ InitParsers
    /\ NoProject
    /\ NoCall
    /\ req = [p \in Inst |-> [base_path |-> "d", filename |-> "a.dts"]]
    /\ \E pls \in SeqsUpTo(Places, MaxPlaces) :
          /\ given = [family |-> "discovery", places |-> pls]
          /\ fs = FileSystem("d", [f \in {"a.dts", "card.dtsi"} |->
                     IF f = "a.dts" THEN File(IncludeLine("card.dtsi"))
                     ELSE File(PlacesText(pls))])

NextFind == ParserStep(1)

SpecFind == InitFind /\ [][NextFind]_vars

-----------------------------------------------------------------------------
(* Claims about the sound-card discovery (SpecFind) *)

\* the nodes in breadth-first order from the root
RECURSIVE BreadthFirst(_, _)
BreadthFirst(ns, queue) ==
    IF queue = <<>> THEN <<>>
    ELSE <<Head(queue)>> \o BreadthFirst(ns, Tail(queue) \o ns[Head(queue)].children)

\* the first node of the order that has the sign, 0 if none has it
FirstWith(ns, order, Sign(_)) ==
    LET at == {k \in 1..Len(order) : Sign(ns[order[k]])}
    IN  IF at = {} THEN 0 ELSE order[MinOf(at)]

ByCompatible(n) ==
    /\ HasProp(n, "compatible")
    /\ ~PropOf(n, "compatible").b
    /\ IsCardCompatible(PropOf(n, "compatible").s)

ByRouting(n) == HasProp(n, "audio-routing")

ByName(n) == IsCardName(n.name)

\* C21: once parse has looked for the sound card, a node whose compatible
\* value has a sound-card marker wins over position: the first such node in
\* breadth-first order is the one found, also when a node with only an
\* audio-routing property comes earlier in that order; a node that matches
\* by its name alone is found only when no node matches by compatible or by
\* audio-routing.
C21_StrongestSignalWins ==
    status[1] \in {"routed", "parsed"} =>
        LET ns == nodes[1]
            order == BreadthFirst(ns, <<1>>)
            found == GetSoundCardNode(ns)
            compat == FirstWith(ns, order, ByCompatible)
            routed == FirstWith(ns, order, ByRouting)
        IN  /\ compat # 0 => found.kind = "node" /\ found.n = compat
            /\ (found.kind = "node" /\ ~ByCompatible(ns[found.n])
                    /\ ~ByRouting(ns[found.n]))
                  => compat = 0 /\ routed = 0 /\ ByName(ns[found.n])

-----------------------------------------------------------------------------
(* The statement family: card.dtsi is a sequence of up to MaxPieces pieces, *)
(* headers with no, one or two colons and statements with no, one or two    *)
(* equals signs; a.dts includes card.dtsi                                   *)

MaxPieces == 4

Pieces ==
    {"a:b: n {", "L: m {", "n {", " k = \"1\";", " k = x = y ;", " k;", " ;", "}"}

InitStmt ==
    /\ InitParsers
    /\ NoProject
    /\ NoCall
    /\ req = [p \in Inst |-> [base_path |-> "d", filename |-> "a.dts"]]
    /\ \E body \in SeqsUpTo(Pieces, MaxPieces) :
          /\ given = [family |-> "statements", pieces |-> body]
          /\ fs = FileSystem("d", [f \in {"a.dts", "card.dtsi"} |->
                     IF f = "a.dts" THEN File(IncludeLine("card.dtsi"))
                     ELSE File(Concat(body))])

NextStmt == ParserStep(1)

SpecStmt == InitStmt /\ [][NextStmt]_vars

-----------------------------------------------------------------------------
(* Claims about headers and statements (SpecStmt) *)

\* the text before the last c of s, and the text after it
BeforeLast(s, c) == Take(s, LastIndexOf(s, c) - 1)

AfterLast(s, c) == Drop(s, LastIndexOf(s, c))

\* C22: at `{` a header with a colon is split at its last colon: the label
\* registered for the node is the text before the last colon and the name
\* the text after it (for `a:b: name` the label `a:b`); a header without a
\* colon gives no label and is the name as a whole.
C22_HeaderSplitAtLastColon ==
    [][AtToken(1, "{") =>
          LET header == Strip(Top(1).buffer)
              colon == Contains(header, ":")
              label == IF colon THEN Strip(BeforeLast(header, ":")) ELSE ""
              name == IF colon THEN Strip(AfterLast(header, ":")) ELSE header
              node == Last(Last(calls'[1]).stack)
          IN  /\ (~IsRootName(name) /\ ~IsRefName(name)) =>
                    /\ node = Len(nodes[1]) + 1
                    /\ nodes'[1][node].name = name
                    /\ nodes'[1][node].label = label
              /\ label # "" =>
                    label \in DOMAIN labels'[1] /\ labels'[1][label] = node
              /\ label = "" => labels'[1] = labels[1]]_vars

\* the keys of a property map and the value it has for a key
KeysOf(props) == {props[i].k : i \in 1..Len(props)}

ValueOf(props, key) == props[CHOOSE i \in 1..Len(props) : props[i].k = key].v

\* props2 is props1 with key set to val and nothing else changed
IsUpdate(props1, props2, key, val) ==
    /\ KeysOf(props2) = KeysOf(props1) \cup {key}
    /\ Cardinality(KeysOf(props2)) = Len(props2)
    /\ ValueOf(props2, key) = val
    /\ \A k \in KeysOf(props1) \ {key} : ValueOf(props2, k) = ValueOf(props1, k)

\* key and val are the trimmed texts around the first `=` of stmt
SplitsAtFirstEquals(stmt, key, val) ==
    \E i \in 1..Len(stmt) :
        /\ Ch(stmt, i) = "="
        /\ \A j \in 1..(i - 1) : Ch(stmt, j) # "="
        /\ key = Strip(Take(stmt, i - 1))
        /\ val = Strip(Drop(stmt, i))

\* the step leaves every node but `top`, and of `top` all but the property
\* map, as it was
OnlyPropsOf(top) ==
    /\ Len(nodes'[1]) = Len(nodes[1])
    /\ \A i \in 1..Len(nodes[1]) :
          /\ nodes'[1][i].name = nodes[1][i].name
          /\ nodes'[1][i].label = nodes[1][i].label
          /\ nodes'[1][i].parent = nodes[1][i].parent
          /\ nodes'[1][i].children = nodes[1][i].children
          /\ i # top => nodes'[1][i].props = nodes[1][i].props

\* C23: at `;` the buffered statement changes only the property map of the
\* node on top of the stack.  With an `=` it is split at the first `=` into
\* the trimmed name and the trimmed raw value, which replaces an earlier
\* value of that name; without `=` and not empty it sets the boolean
\* property named by the trimmed text; empty, it changes nothing.  The tree,
\* the stack and the labels stay as they were.
C23_StatementSetsProperty ==
    [][AtToken(1, ";") =>
          LET stmt == Strip(Top(1).buffer)
              top == Last(Top(1).stack)
              old == nodes[1][top].props
              new == nodes'[1][top].props
          IN  /\ OnlyPropsOf(top)
              /\ labels' = labels
              /\ Len(calls'[1]) = Len(calls[1])
              /\ Last(calls'[1]).stack = Top(1).stack
              /\ stmt = "" => new = old
              /\ (stmt # "" /\ ~Contains(stmt, "=")) =>
                    IsUpdate(old, new, stmt, TrueVal)
              /\ Contains(stmt, "=") =>
                    \E key \in {Strip(Take(stmt, i)) : i \in 0..Len(stmt)} :
                    \E val \in {Strip(Drop(stmt, i)) : i \in 0..Len(stmt)} :
                       /\ SplitsAtFirstEquals(stmt, key, val)
                       /\ IsUpdate(old, new, key, StrVal(val))]_vars

\* C23's case: k = "1" was replaced by the value of `k = x = y`, all of the
\* text after the first `=`, in a node that has a label
C23_Witness ==
    /\ status[1] = "parsed"
    /\ given.pieces = <<"L: m {", " k = \"1\";", " k = x = y ;">>
    /\ nodes[1][2].props = <<[k |-> "k", v |-> StrVal("x = y")]>>
    /\ DOMAIN labels[1] = {"L"}

-----------------------------------------------------------------------------
(* The board family: card.dtsi holds a root block with components and then *)
(* a sound card with one DAI link whose phandles name the components, the  *)
(* card, the platform or nothing on the board; a.dts includes card.dtsi    *)

\* a system-on-chip block and a codec with labels, a codec whose label tells
\* a GPIO block, a node with a bindings name, an amplifier without a label
PartText(part) ==
    IF part = "soc" THEN " lpass_cpu0: lpass@3000 { };"
    ELSE IF part = "codec" THEN " wcd_rx0: wcd9380 { };"
    ELSE IF part = "gpio" THEN " wcd_gpio: wcd9370-ctl { };"
    ELSE IF part = "bindings" THEN " lpass-dt-bindings { };"
    ELSE " wsa8810 { };"

BoardParts ==
    {<<>>, <<"soc", "codec">>, <<"soc", "codec", "gpio">>,
     <<"soc", "codec", "bindings", "amp">>, <<"gpio", "soc", "amp">>}

BoardCpus == {<<"lpass_cpu0">>, <<"lpass_cpu0", "wcd_rx0">>}

BoardCodecs ==
    {<<"wcd_rx0", "q6apm">>, <<"wcd_rx0", "wcd_gpio">>, <<"snd", "lpass_cpu0">>}

BoardCard(header, cpu, codec) ==
    [family |-> "board", header |-> header, compat |-> CardCompatible,
     routes |-> None,
     links |-> <<LinkDesc([node |-> "dai-link0", name |-> Val(<<"Primary">>),
                           platform |-> None], Val(cpu), Val(codec), FALSE)>>,
     flagged |-> FALSE, included |-> TRUE]

BoardText(parts, c) ==
    "/ {" \o Concat([i \in 1..Len(parts) |-> PartText(parts[i])]) \o " };\n"
    \o CardText(c)

InitBoard ==
    /\ InitParsers
    /\ NoProject
    /\ NoCall
    /\ req = [p \in Inst |-> [base_path |-> "d", filename |-> "a.dts"]]
    /\ \E parts \in BoardParts, header \in {"snd: sound", "sound"},
          cpu \in BoardCpus, codec \in BoardCodecs :
          /\ given = [family |-> "board", parts |-> parts, header |-> header,
                      cpu |-> cpu, codec |-> codec]
          /\ fs = FileSystem("d", [f \in {"a.dts", "card.dtsi"} |->
                     IF f = "a.dts" THEN File(IncludeLine("card.dtsi"))
                     ELSE File(BoardText(parts, BoardCard(header, cpu, codec)))])

NextBoard == ParserStep(1) \/ BuilderStep(1)

SpecBoard == InitBoard /\ [][NextBoard]_vars

-----------------------------------------------------------------------------
(* Claims about the hardware diagram (SpecBoard) *)

\* the lines of a text
LinesOf(text) ==
    LET nl == {0, Len(text) + 1} \cup {i \in 1..Len(text) : Ch(text, i) = "\n"}
    IN  {SubSeq(text, a + 1, b - 1) :
            <<a, b>> \in {ab \in nl \X nl :
                            /\ ab[1] < ab[2]
                            /\ \A c \in nl : ~(ab[1] < c /\ c < ab[2])}}

IsConnector(line) == Contains(line, " --> ")

ConnectorSource(line) == Take(line, IndexOf(line, " -- ") - 1)

ConnectorTarget(line) == Drop(line, LastIndexOf(line, " --> ") + 4)

\* sid has a shape in the text: a line sid["..."]:::css or sid(["..."]):::css
HasShape(lines, sid) ==
    \E line \in lines :
        /\ Contains(line, ":::")
        /\ StartsWith(line, sid \o "[\"") \/ StartsWith(line, sid \o "([\"")

\* the hardware node is build-system boilerplate
IsBoilerplate(n) ==
    \/ Contains(Lower(n.id), "pinctrl") \/ Contains(Lower(n.id), "gpio")
    \/ Contains(Lower(n.label), "#include") \/ Contains(Lower(n.label), "dt-bindings")

\* C24: in the text of the hardware diagram every connector joins two
\* different ids that both have a shape, and both are ids of hardware nodes
\* that are no boilerplate (no pinctrl or gpio in the id, no #include or
\* dt-bindings in the label); a hardware node that is boilerplate has no
\* shape and no connector.
C24_ConnectorsJoinShapes ==
    diagrams[1].st = "built" =>
        LET lines == LinesOf(diagrams[1].hardware)
            hw == GetHardwareNodes(nodes[1]).v
            kept == {GetSafeId(hw[i].id) : i \in {j \in 1..Len(hw) : ~IsBoilerplate(hw[j])}}
            dropped == {GetSafeId(hw[i].id) : i \in {j \in 1..Len(hw) : IsBoilerplate(hw[j])}}
            ends == {<<ConnectorSource(l), ConnectorTarget(l)>> :
                        l \in {m \in lines : IsConnector(m)}}
        IN  /\ \A e \in ends :
                  /\ e[1] # e[2]
                  /\ e[1] \in kept /\ e[2] \in kept
                  /\ HasShape(lines, e[1]) /\ HasShape(lines, e[2])
            /\ \A sid \in dropped \ kept :
                  /\ ~HasShape(lines, sid)
                  /\ \A e \in ends : e[1] # sid /\ e[2] # sid

\* C24's case: the card, the cpu block and the codec have shapes and
\* connectors, the GPIO block that the link names as a codec has neither, and
\* the codec that is its own cpu has no connector to itself
C24_Witness ==
    /\ diagrams[1].st = "built"
    /\ given.parts = <<"soc", "codec", "gpio">>
    /\ given.header = "snd: sound"
    /\ given.cpu = <<"lpass_cpu0", "wcd_rx0">>
    /\ given.codec = <<"wcd_rx0", "wcd_gpio">>
    /\ LET lines == LinesOf(diagrams[1].hardware)
       IN  /\ GetSafeId("snd") \o " -- \"Cpu: Primary\" --> " \o GetSafeId("lpass_cpu0")
                 \in lines
           /\ GetSafeId("lpass_cpu0") \o " -- \"Dai\" --> " \o GetSafeId("wcd_rx0")
                 \in lines
           /\ HasShape(lines, GetSafeId("wcd_rx0"))
           /\ ~HasShape(lines, GetSafeId("wcd_gpio"))
           /\ Cardinality({l \in lines : IsConnector(l)}) = 4

-----------------------------------------------------------------------------
(* The wiring family: a sound card in card.dtsi with one or two DAI links   *)
(* whose codec lists mix macros, bus masters, endpoints and platforms       *)

WireCodecs ==
    {<<"wcd_rx0">>,
     <<"lpass_rxmacro", "wcd_rx0">>,
     <<"swr0", "left_spkr">>,
     <<"lpass_wsamacro", "swr0", "swr1", "left_spkr", "right_spkr">>,
     <<"lpass_rxmacro", "swr0", "left_spkr", "wsa_1">>,
     <<"lpass_vamacro", "swr00">>,
     <<"q6apm">>,
     <<"swr1", "wcd_rx0", "swr1">>}

WireLink(node, codec) ==
    LinkDesc([node |-> node, name |-> None, platform |-> None],
             Val(<<"lpass_cpu0">>), Val(codec), FALSE)

WireLinks ==
    {<<WireLink("dai-link0", c)>> : c \in WireCodecs}
    \cup {<<WireLink("dai-link0", c), WireLink("dai-link1", d)>> :
             c \in WireCodecs, d \in WireCodecs}

InitWire ==
    /\ InitParsers
    /\ NoProject
    /\ NoCall
    /\ req = [p \in Inst |-> [base_path |-> "d", filename |-> "a.dts"]]
    /\ \E links \in WireLinks :
          /\ given = [family |-> "wiring", links |-> links]
          /\ fs = FileSystem("d", CardFiles(OrderCard(links)))

NextWire == ParserStep(1) \/ BuilderStep(1)

SpecWire == InitWire /\ [][NextWire]_vars

-----------------------------------------------------------------------------
(* Claims about the wiring of a DAI link (SpecWire) *)

\* the step is build_graph_json wiring a DAI link, and the link it is
LinkStep ==
    /\ graph[1].st = "links"
    /\ graph[1].next <= Len(dailinks[1])
    /\ graph'[1] # graph[1]

LinkAt == dailinks[1][graph[1].next]

\* the edges the step adds
NewEdges == SubSeq(graph'[1].edges, Len(graph[1].edges) + 1, Len(graph'[1].edges))

\* how many hardware edges from src_raw to dst_raw the step adds
Wired(src_raw, dst_raw) ==
    Cardinality({e \in 1..Len(NewEdges) :
        /\ NewEdges[e].kind = "hardware"
        /\ NewEdges[e].source = GetSafeId(src_raw)
        /\ NewEdges[e].target = GetSafeId(dst_raw)})

\* the tokens of a codec list that are macros, bus masters, endpoints
TokensOf(codecs, class) ==
    {codecs[k] : k \in {j \in 1..Len(codecs) : CodecClass(codecs[j]) = class}}

MacrosOf(codecs) == {"lpass." \o MacroName(tok)[1] : tok \in TokensOf(codecs, "macro")}

MastersOf(codecs) ==
    {"bus.swr" \o Dec(SwrIndex(tok)) : tok \in TokensOf(codecs, "master")}

\* C25: the PCM/TDM fallback is for links without macros and without bus
\* masters only: the step of a DAI link adds the edge from lpass.spf to
\* bus.pcm, or an edge from bus.pcm to an endpoint, only if the link's codec
\* list has no macro and no bus master.
C25_PcmFallbackOnly ==
    [][LinkStep =>
          ((Wired("lpass.spf", "bus.pcm") > 0
              \/ \E ep \in TokensOf(LinkAt.codec, "endpoint") : Wired("bus.pcm", ep) > 0)
            => (MacrosOf(LinkAt.codec) = {} /\ MastersOf(LinkAt.codec) = {}))]_vars

\* the graph under construction has a hardware edge from src_raw to dst_raw
HasHardwareEdge(src_raw, dst_raw) ==
    \E e \in 1..Len(graph[1].edges) :
        /\ graph[1].edges[e].kind = "hardware"
        /\ graph[1].edges[e].source = GetSafeId(src_raw)
        /\ graph[1].edges[e].target = GetSafeId(dst_raw)

\* C26: the step of a DAI link that has a bus master and, among its
\* endpoints, a speaker-named identifier but no amplifier-named (wsa) one
\* leaves the synthesized amplifier node in the graph and adds an edge from
\* each bus master of the link to it and an edge from it to each speaker
\* endpoint of the link, and no edge from a bus master to a speaker endpoint.
C26_ImplicitAmplifier ==
    [][LinkStep =>
          LET eps == TokensOf(LinkAt.codec, "endpoint")
              speakers == {ep \in eps : IsSpkr(ep)}
              masters == MastersOf(LinkAt.codec)
          IN  (masters # {} /\ speakers # {} /\ ~\E ep \in eps : IsWsa(ep)) =>
                 /\ \E i \in 1..Len(graph'[1].nodes) :
                       /\ graph'[1].nodes[i].id = GetSafeId("periph.wsa_auto")
                       /\ graph'[1].nodes[i].type = "amp"
                 /\ \A b \in masters : Wired(b, "periph.wsa_auto") >= 1
                 /\ \A ep \in speakers : Wired("periph.wsa_auto", ep) >= 1
                 /\ \A b \in masters, ep \in speakers : Wired(b, ep) = 0]_vars

\* C26's case: a link with two bus masters and two speakers and no
\* amplifier has been wired through the synthesized amplifier
C26_Witness ==
    /\ graph[1].st = "done"
    /\ given.links = <<WireLink("dai-link0",
          <<"lpass_wsamacro", "swr0", "swr1", "left_spkr", "right_spkr">>)>>
    /\ HasHardwareEdge("bus.swr0", "periph.wsa_auto")
    /\ HasHardwareEdge("bus.swr1", "periph.wsa_auto")
    /\ HasHardwareEdge("periph.wsa_auto", "left_spkr")
    /\ HasHardwareEdge("periph.wsa_auto", "right_spkr")
    /\ ~HasHardwareEdge("bus.swr0", "left_spkr")

\* the nodes of the graph under construction with the id of raw_id
NodesOf(gr, raw_id) ==
    {i \in 1..Len(gr.nodes) : gr.nodes[i].id = GetSafeId(raw_id)}

\* the bus indices the links wired so far have named
IndicesSoFar ==
    UNION {{SwrIndex(tok) : tok \in TokensOf(dailinks[1][k].codec, "master")} :
              k \in 1..(graph[1].next - 1)}

\* C27: a bus index N has one bus-master node, bus.swrN, the same for every
\* link and created once: the node is in the graph once from the step of the
\* first link that names N, and a later step leaves it as it is.  The step
\* of a link with macros adds an edge from lpass.spf to each of its macros
\* and from each macro to each of its bus masters; the step of a link
\* without macros adds an edge from lpass.spf to each of its bus masters.
C27_BackboneToBus ==
    [][LinkStep =>
          LET macros == MacrosOf(LinkAt.codec)
              masters == MastersOf(LinkAt.codec)
          IN  /\ \A b \in masters :
                    /\ Cardinality(NodesOf(graph'[1], b)) = 1
                    /\ \A i \in NodesOf(graph'[1], b) : graph'[1].nodes[i].type = "bus"
              /\ \A n \in IndicesSoFar :
                    /\ Cardinality(NodesOf(graph[1], "bus.swr" \o Dec(n))) = 1
                    /\ \A i \in NodesOf(graph[1], "bus.swr" \o Dec(n)) :
                          graph'[1].nodes[i] = graph[1].nodes[i]
              /\ macros # {} =>
                    /\ \A m \in macros : Wired("lpass.spf", m) >= 1
                    /\ \A m \in macros, b \in masters : Wired(m, b) >= 1
              /\ macros = {} =>
                    \A b \in masters : Wired("lpass.spf", b) = 1]_vars

\* C27's case: two links name bus 0, as swr0 and as swr00, the first without
\* a macro and the second with one, and there is one node for it
C27_Witness ==
    /\ graph[1].st = "done"
    /\ given.links = <<WireLink("dai-link0", <<"swr0", "left_spkr">>),
                       WireLink("dai-link1", <<"lpass_vamacro", "swr00">>)>>
    /\ Cardinality(NodesOf(graph[1], "bus.swr0")) = 1
    /\ NodesOf(graph[1], "bus.swr00") = {}
    /\ HasHardwareEdge("lpass.spf", "bus.swr0")
    /\ HasHardwareEdge("lpass.spf", "lpass.vamacro")
    /\ HasHardwareEdge("lpass.vamacro", "bus.swr0")

-----------------------------------------------------------------------------
(* The label family: sanitize_label is called on a text made of up to      *)
(* MaxParts parts; the empty text stands for an absent one as well         *)

MaxParts == 3

LabelParts == {"left_spkr", "\"", "<", "a_very_long_codec_name", "Amp 1"}

InitLabel ==
    /\ InitParsers
    /\ NoProject
    /\ NoCall
    /\ req = [p \in Inst |-> [base_path |-> "d", filename |-> "a.dts"]]
    /\ fs = FileSystem("d", [f \in {} |-> Unreadable])
    /\ \E parts \in SeqsUpTo(LabelParts, MaxParts) :
          given = [family |-> "label", text |-> Concat(parts)]

NextLabel == Sanitize

SpecLabel == InitLabel /\ [][NextLabel]_vars

-----------------------------------------------------------------------------
(* Claims about sanitize_label (SpecLabel) *)

\* the text before the first `"` or `<` of s
CutAtDelimiter(s) == Take(s, SpanNotIn(s, {"\"", "<"}))

-----------------------------------------------------------------------------
(* Claims about the graph build_graph_json returns (Spec, SpecBoard) *)

LaneIds == {Groups[i].id : i \in 1..Len(Groups)}

\* C29: in the graph build_graph_json returns, the source and the target of
\* every edge are ids of nodes of the graph, no two nodes have the same id,
\* and the parent of a node that has one is the id of one of the five lane
\* nodes, which is a node of the graph.
C29_ReferentialIntegrity ==
    graph[1].st = "done" =>
        LET g == graph[1]
            ids == {g.nodes[i].id : i \in 1..Len(g.nodes)}
        IN  /\ \A e \in 1..Len(g.edges) :
                  g.edges[e].source \in ids /\ g.edges[e].target \in ids
            /\ Cardinality(ids) = Len(g.nodes)
            /\ \A i \in 1..Len(g.nodes) :
                  g.nodes[i].parent # "" =>
                     /\ g.nodes[i].parent \in LaneIds
                     /\ \E j \in 1..Len(g.nodes) :
                           /\ g.nodes[j].id = g.nodes[i].parent
                           /\ g.nodes[j].type = "group"

\* C29's case: the graph of a card with two links has the platform token,
\* which only the DAI edge made a node, as the target of that edge
C29_Witness ==
    /\ graph[1].st = "done"
    /\ Len(dailinks[1]) = 2
    /\ dailinks[1][1].codec = <<"wcd_rx0", "q6apm">>
    /\ HasNode("q6apm")
    /\ HasDaiEdge("lpass_cpu0", "q6apm", dailinks[1][1].name)
    /\ HasNode("periph.dmic")

\* C30: in the graph build_graph_json returns every node that is not of type
\* group has a parent lane, also a node that only an edge made and the DMIC
\* node, which is made after the parents are assigned.
C30_EveryNodeHasLane ==
    graph[1].st = "done" =>
        \A i \in 1..Len(graph[1].nodes) :
            graph[1].nodes[i].type # "group" => graph[1].nodes[i].parent \in LaneIds

\* the parent of the node of raw_id in the graph, "" when it has none
ParentOf(raw_id) ==
    LET at == NodesOf(graph[1], raw_id)
    IN  IF at = {} THEN "" ELSE graph[1].nodes[CHOOSE i \in at : TRUE].parent

\* C30's case: the amplifier that no link names, the fifth node of the
\* tree, got its lane in the last pass, the platform that only the DAI edge
\* made a node got one with the edge, and the DMIC node has one
C30_Witness ==
    /\ graph[1].st = "done"
    /\ given.parts = <<"soc", "codec", "bindings", "amp">>
    /\ given.codec = <<"wcd_rx0", "q6apm">>
    /\ ParentOf("n_5") = "grp_peripherals"
    /\ ParentOf("q6apm") = "grp_lpass"
    /\ ParentOf("periph.dmic") = "grp_peripherals"
    /\ ParentOf("wcd_rx0") = "grp_peripherals"

=============================================================================
